---- MODULE Spec2Model ----
(***************************************************************************)
(* NJ health-facility enforcement monitor: the PDF information-extraction   *)
(* pipeline (src/pdf_parser.py) and the reconciliation and scoring of one   *)
(* entry (src/data_processor.py).                                           *)
(*                                                                          *)
(* Python strings are TLA+ strings (Len, \o and SubSeq work on them), a     *)
(* dict is a function from its keys, and a value whose Python type matters  *)
(* is a record tagged with that type.                                       *)
(***************************************************************************)
EXTENDS Integers, Sequences, FiniteSets, TLC

VARIABLES
    pc,            \* position of the running call
    num_pages,     \* number of pages of the document being parsed
    page,          \* index of the page the current page loop is at
    x_text,        \* local text_content of _extract_text_from_pdf
    a_text,        \* x_text as method A (pdfplumber) left it
    a_threw,       \* method A raised
    b_threw,       \* method B raised
    attempts,      \* the extraction methods attempted, in order
    direct_text,   \* what _extract_text_from_pdf returned
    ocr_calls,     \* how many times _extract_text_with_ocr was invoked
    ocr_acc,       \* local text_content of _extract_text_with_ocr
    ocr_threw,     \* _extract_text_with_ocr caught an exception
    text_content,  \* local text_content of parse_pdf
    parsed_data,   \* what parse_pdf / _parse_text_content returned
    web_entry,     \* first argument of process_entry
    pdf_data,      \* second argument of process_entry
    now,           \* the wall clock, datetime.now(), in ticks
    result,        \* outcome of process_entry: a returned record or a raise
    first_result,  \* outcome of an earlier process_entry call on the same pair
    site,          \* rows of the monitored page's table, in page order
    last_check_file, \* content of last_check.txt: a datetime, or None when absent
    new_entries,   \* outcome of the last get_new_entries call
    returned,      \* the lists get_new_entries returned so far, oldest first
    checked_site,  \* the rows the last successful get_new_entries call fetched
    entrypoint,    \* the run in progress: run_daily_check or run_check
    database_manager, \* a DatabaseManager is configured
    idx,           \* position of the run's current loop in its list
    processed_entries, \* local processed_entries of the run
    skipped,       \* facility names of the entries whose processing was logged as failed
    store_calls,   \* the store_entry calls made, in order
    email_calls,   \* the send_email_to_facility calls made, in order
    run_result,    \* outcome of the run: its return value or a raise
    parse_error,   \* the extractor of _parse_text_content that raised, '' when none did
    table,         \* rows of the enforcement_actions table, in insertion order
    runs,          \* the run_check calls in flight: the locals of each request's thread
    running,       \* TaskScheduler.running
    scheduler_thread, \* TaskScheduler.scheduler_thread: a thread of loop_threads, or None
    loop_threads,  \* the threads started on _run_scheduler, in order of creation
    caller,        \* position of the thread that calls the scheduler (the main thread)
    calls,         \* the run() and stop() calls made, in order
    minute,        \* the wall clock of the scheduler, in minutes
    jobs,          \* the jobs of the schedule module: time string and next_run
    task_runs      \* the executions of the scheduled task, in order

vars == <<pc, num_pages, page, x_text, a_text, a_threw, b_threw, attempts,
          direct_text, ocr_calls, ocr_acc, ocr_threw, text_content,
          parsed_data, web_entry, pdf_data, now, result, first_result,
          site, last_check_file, new_entries, returned, checked_site,
          entrypoint, database_manager, idx, processed_entries, skipped,
          store_calls, email_calls, run_result, parse_error,
          table, runs, running, scheduler_thread, loop_threads, caller, calls,
          minute, jobs, task_runs>>

pdfVars == <<num_pages, page, x_text, a_text, a_threw, b_threw, attempts,
             direct_text, ocr_calls, ocr_acc, ocr_threw, text_content>>

procVars == <<web_entry, pdf_data, now, result>>

\* the variables of a repeated call
repeatVars == <<first_result>>

\* the variables of the scraper: the page and the cursor
scrapeVars == <<site, last_check_file, new_entries, returned, checked_site>>

\* the variables of a pipeline run
loopVars == <<entrypoint, database_manager, idx, processed_entries, skipped,
              store_calls, email_calls, run_result>>

\* the variables of the exception handler of _parse_text_content
fieldVars == <<parse_error>>

\* the variables of the database
dbVars == <<table>>

\* the variables of the scheduler
schedVars == <<running, scheduler_thread, loop_threads, caller, calls, minute,
               jobs, task_runs>>

\* the variables of the threads
threadVars == <<runs, schedVars>>

\* the variables of the calls around a run
restVars == <<fieldVars, dbVars, threadVars>>

\* the variables beyond one parse_pdf and one process_entry call
runVars == <<repeatVars, scrapeVars, loopVars, restVars>>

-----------------------------------------------------------------------------
(* Bounds of the model.                                                     *)

\* most pages a modelled document has
MaxPages == 2

-----------------------------------------------------------------------------
(* Python string primitives.                                                *)

\* the characters str.strip() and the regex class \s remove
WS == {" ", "\n", "\t"}

DigitChars == {"0", "1", "2", "3", "4", "5", "6", "7", "8", "9"}

Ch(s, i) == SubSeq(s, i, i)

\* index of the first character at or after i that is not in set (greedy X*)
RECURSIVE SkipSet(_, _, _)
SkipSet(s, i, set) ==
    IF i <= Len(s) /\ Ch(s, i) \in set THEN SkipSet(s, i + 1, set) ELSE i

\* index of the last character at or before j that is not in set
RECURSIVE RSkipSet(_, _, _)
RSkipSet(s, j, set) ==
    IF j >= 1 /\ Ch(s, j) \in set THEN RSkipSet(s, j - 1, set) ELSE j

\* str.strip()
Strip(s) ==
    LET i == SkipSet(s, 1, WS)
        j == RSkipSet(s, Len(s), WS)
    IN  IF i > j THEN "" ELSE SubSeq(s, i, j)

\* re.sub(r'[^set]', '', s): the characters of s that are in set, in order
\* (the string is halved at each step, which keeps the recursion shallow)
RECURSIVE Keep(_, _)
Keep(s, set) ==
    IF s = "" THEN ""
    ELSE IF Len(s) = 1 THEN (IF s \in set THEN s ELSE "")
    ELSE Keep(SubSeq(s, 1, Len(s) \div 2), set)
         \o Keep(SubSeq(s, Len(s) \div 2 + 1, Len(s)), set)

\* number of non-whitespace characters of s
NonWsCount(s) == Len(s) - Len(Keep(s, WS))

UpperOf ==
    [c \in {"a","b","c","d","e","f","g","h","i","j","k","l","m","n","o","p","q",
            "r","s","t","u","v","w","x","y","z"} |->
        CASE c = "a" -> "A" [] c = "b" -> "B" [] c = "c" -> "C" [] c = "d" -> "D"
          [] c = "e" -> "E" [] c = "f" -> "F" [] c = "g" -> "G" [] c = "h" -> "H"
          [] c = "i" -> "I" [] c = "j" -> "J" [] c = "k" -> "K" [] c = "l" -> "L"
          [] c = "m" -> "M" [] c = "n" -> "N" [] c = "o" -> "O" [] c = "p" -> "P"
          [] c = "q" -> "Q" [] c = "r" -> "R" [] c = "s" -> "S" [] c = "t" -> "T"
          [] c = "u" -> "U" [] c = "v" -> "V" [] c = "w" -> "W" [] c = "x" -> "X"
          [] c = "y" -> "Y" [] c = "z" -> "Z"]

LowerCh(c) ==
    IF \E l \in DOMAIN UpperOf : UpperOf[l] = c
    THEN CHOOSE l \in DOMAIN UpperOf : UpperOf[l] = c
    ELSE c

\* str.lower()
RECURSIVE Lower(_)
Lower(s) ==
    IF s = "" THEN ""
    ELSE IF Len(s) = 1 THEN LowerCh(s)
    ELSE Lower(SubSeq(s, 1, Len(s) \div 2)) \o Lower(SubSeq(s, Len(s) \div 2 + 1, Len(s)))

\* `sub in s` for Python strings
Contains(sub, s) ==
    \E i \in 1..(Len(s) - Len(sub) + 1) : SubSeq(s, i, i + Len(sub) - 1) = sub

\* F(x) with x computed once, as a local variable of the code is
Once(x, F(_)) == CHOOSE y \in {F(v) : v \in {x}} : TRUE

\* dict.get(k, default)
Get(d, k, default) == IF k \in DOMAIN d THEN d[k] ELSE default

\* the empty dict {}
EmptyDict == [k \in {} |-> ""]

-----------------------------------------------------------------------------
(* Text Extraction Layer and OCR Fallback Layer: PDFParser.parse_pdf,        *)
(* _extract_text_from_pdf and _extract_text_with_ocr.  What each library     *)
(* returns for a page (or that it raises) is the environment's choice.      *)

\* parse_pdf's threshold on len(text_content.strip())
OcrMinChars == 50

TxtShort == "Facility: Acme Care"
TxtFifty == "Notice:penalty-of-$12,500-assessed-on-Acme-Center."
TxtPadded == "a  b  c  d  e  f  g  h  i  j  k  l  m  n  o  p  q  r  s"
TxtLongB == "Curtailment of admissions; fine of $2,000 assessed against Acme."
TxtShortB == "License #: NJ-123"
TxtOcr == "Scanned letter: penalty of $1,234 assessed. Suspension of license."

\* what pdfplumber's page.extract_text() may return ("" stands for None too)
PagesA == {"", " ", TxtShort, TxtFifty, TxtPadded}

\* what PyPDF2's page.extract_text() may return
PagesB == {"", TxtShortB, TxtLongB}

\* what pytesseract.image_to_string may return
PagesOcr == {"", " ", TxtOcr}

\* the page loops' `if page_text: text_content += page_text + "\n"`
AddPage(acc, t) == IF t # "" THEN acc \o t \o "\n" ELSE acc

\* HasText without the strip(): whitespace counts as text
HasTextUnstripped(t) == t # ""

\* `if text_content.strip():` after a method's page loop
HasText(t) == Strip(t) # ""

\* NeedsOcr with the comparison off by one
NeedsOcrInclusive(t) == t = "" \/ Len(Strip(t)) <= OcrMinChars

\* parse_pdf: `if not text_content or len(text_content.strip()) < 50`
NeedsOcr(t) == t = "" \/ Len(Strip(t)) < OcrMinChars

\* OcrOnException returning what the pages before the failure gave
OcrPartialOnException(acc) == acc

\* what _extract_text_with_ocr returns from its except clause
OcrOnException(acc) == ""

\* OcrReturn falling back to the direct text when OCR read nothing
OcrReturnOrDirect(acc) == IF HasText(acc) THEN acc ELSE direct_text

\* what _extract_text_with_ocr returns after its page loop
OcrReturn(acc) == IF HasText(acc) THEN acc ELSE ""

\* what _extract_text_from_pdf returns after method B raised, or came up empty
FallThrough(acc) == acc

PlumberOpen ==
    /\ pc = "a_open"
    /\ attempts' = Append(attempts, "A")
    /\ \/ /\ pc' = "a_page"
          /\ page' = 1
          /\ UNCHANGED <<a_threw, a_text>>
       \/ /\ a_threw' = TRUE
          /\ a_text' = x_text
          /\ pc' = "b_open"
          /\ UNCHANGED page
    /\ UNCHANGED <<num_pages, x_text, b_threw, direct_text, ocr_calls, ocr_acc,
                   ocr_threw, text_content, parsed_data>>
    /\ UNCHANGED procVars
    /\ UNCHANGED runVars

PlumberPage ==
    /\ pc = "a_page"
    /\ page <= num_pages
    /\ \/ \E t \in PagesA :
             /\ x_text' = AddPage(x_text, t)
             /\ page' = page + 1
             /\ UNCHANGED <<pc, a_threw, a_text>>
       \/ /\ a_threw' = TRUE
          /\ a_text' = x_text
          /\ pc' = "b_open"
          /\ UNCHANGED <<page, x_text>>
    /\ UNCHANGED <<num_pages, b_threw, attempts, direct_text, ocr_calls, ocr_acc,
                   ocr_threw, text_content, parsed_data>>
    /\ UNCHANGED procVars
    /\ UNCHANGED runVars

PlumberDone ==
    /\ pc = "a_page"
    /\ page > num_pages
    /\ a_text' = x_text
    /\ IF HasText(x_text)
       THEN direct_text' = x_text /\ pc' = "threshold"
       ELSE direct_text' = direct_text /\ pc' = "b_open"
    /\ UNCHANGED <<num_pages, page, x_text, a_threw, b_threw, attempts, ocr_calls,
                   ocr_acc, ocr_threw, text_content, parsed_data>>
    /\ UNCHANGED procVars
    /\ UNCHANGED runVars

PyPdfOpen ==
    /\ pc = "b_open"
    /\ attempts' = Append(attempts, "B")
    /\ \/ /\ pc' = "b_page"
          /\ page' = 1
          /\ UNCHANGED <<b_threw, direct_text>>
       \/ /\ b_threw' = TRUE
          /\ direct_text' = FallThrough(x_text)
          /\ pc' = "threshold"
          /\ UNCHANGED page
    /\ UNCHANGED <<num_pages, x_text, a_text, a_threw, ocr_calls, ocr_acc,
                   ocr_threw, text_content, parsed_data>>
    /\ UNCHANGED procVars
    /\ UNCHANGED runVars

PyPdfPage ==
    /\ pc = "b_page"
    /\ page <= num_pages
    /\ \/ \E t \in PagesB :
             /\ x_text' = AddPage(x_text, t)
             /\ page' = page + 1
             /\ UNCHANGED <<pc, b_threw, direct_text>>
       \/ /\ b_threw' = TRUE
          /\ direct_text' = FallThrough(x_text)
          /\ pc' = "threshold"
          /\ UNCHANGED <<page, x_text>>
    /\ UNCHANGED <<num_pages, a_text, a_threw, attempts, ocr_calls, ocr_acc,
                   ocr_threw, text_content, parsed_data>>
    /\ UNCHANGED procVars
    /\ UNCHANGED runVars

PyPdfDone ==
    /\ pc = "b_page"
    /\ page > num_pages
    /\ direct_text' = IF HasText(x_text) THEN x_text ELSE FallThrough(x_text)
    /\ pc' = "threshold"
    /\ UNCHANGED <<num_pages, page, x_text, a_text, a_threw, b_threw, attempts,
                   ocr_calls, ocr_acc, ocr_threw, text_content, parsed_data>>
    /\ UNCHANGED procVars
    /\ UNCHANGED runVars

\* parse_pdf, between _extract_text_from_pdf returning and the OCR decision
Threshold ==
    /\ pc = "threshold"
    /\ text_content' = direct_text
    /\ IF NeedsOcr(direct_text)
       THEN /\ ocr_calls' = ocr_calls + 1
            /\ ocr_acc' = ""
            /\ pc' = "o_open"
       ELSE /\ pc' = "check_empty"
            /\ UNCHANGED <<ocr_calls, ocr_acc>>
    /\ UNCHANGED <<num_pages, page, x_text, a_text, a_threw, b_threw, attempts,
                   direct_text, ocr_threw, parsed_data>>
    /\ UNCHANGED procVars
    /\ UNCHANGED runVars

OcrOpen ==
    /\ pc = "o_open"
    /\ \/ /\ pc' = "o_page"
          /\ page' = 1
          /\ UNCHANGED <<ocr_threw, text_content>>
       \/ /\ ocr_threw' = TRUE
          /\ text_content' = OcrOnException(ocr_acc)
          /\ pc' = "check_empty"
          /\ UNCHANGED page
    /\ UNCHANGED <<num_pages, x_text, a_text, a_threw, b_threw, attempts,
                   direct_text, ocr_calls, ocr_acc, parsed_data>>
    /\ UNCHANGED procVars
    /\ UNCHANGED runVars

OcrPage ==
    /\ pc = "o_page"
    /\ page <= num_pages
    /\ \/ \E t \in PagesOcr :
             /\ ocr_acc' = AddPage(ocr_acc, t)
             /\ page' = page + 1
             /\ UNCHANGED <<pc, ocr_threw, text_content>>
       \/ /\ ocr_threw' = TRUE
          /\ text_content' = OcrOnException(ocr_acc)
          /\ pc' = "check_empty"
          /\ UNCHANGED <<page, ocr_acc>>
    /\ UNCHANGED <<num_pages, x_text, a_text, a_threw, b_threw, attempts,
                   direct_text, ocr_calls, parsed_data>>
    /\ UNCHANGED procVars
    /\ UNCHANGED runVars

OcrDone ==
    /\ pc = "o_page"
    /\ page > num_pages
    /\ text_content' = OcrReturn(ocr_acc)
    /\ pc' = "check_empty"
    /\ UNCHANGED <<num_pages, page, x_text, a_text, a_threw, b_threw, attempts,
                   direct_text, ocr_calls, ocr_acc, ocr_threw, parsed_data>>
    /\ UNCHANGED procVars
    /\ UNCHANGED runVars

-----------------------------------------------------------------------------
(* Field Extraction Engine: PDFParser._parse_text_content.  A regex is       *)
(* matched the way re.search does: leftmost start, greedy repetitions.     *)
(* Where a repetition can give characters back to what follows it, the      *)
(* operator of that pattern says how.                                       *)

NoMatch == [found |-> FALSE, group |-> ""]

Match(g) == [found |-> TRUE, group |-> g]

\* the literal lit (given in lower case) matches at i under re.IGNORECASE
LitAt(s, i, lit) ==
    /\ i >= 1
    /\ i + Len(lit) - 1 <= Len(s)
    /\ Lower(SubSeq(s, i, i + Len(lit) - 1)) = lit

\* [0-9,]
AmountChars == DigitChars \cup {","}

\* `\$?([0-9,]+)` at i: the captured group
AmountAt(s, i) ==
    LET k == IF i <= Len(s) /\ Ch(s, i) = "$" THEN i + 1 ELSE i
        e == SkipSet(s, k, AmountChars)
    IN  IF e > k THEN Match(SubSeq(s, k, e - 1)) ELSE NoMatch

\* `<word>\s*of\s*\$?([0-9,]+)` at i
WordOfAmountAt(s, i, word) ==
    IF ~LitAt(s, i, word) THEN NoMatch
    ELSE LET j == SkipSet(s, i + Len(word), WS)
         IN  IF ~LitAt(s, j, "of") THEN NoMatch
             ELSE AmountAt(s, SkipSet(s, j + 2, WS))

\* r'penalty\s*of\s*\$?([0-9,]+)' at i
PenaltyOfAt(s, i) == WordOfAmountAt(s, i, "penalty")

\* r'fine\s*of\s*\$?([0-9,]+)' at i
FineOfAt(s, i) == WordOfAmountAt(s, i, "fine")

\* r'\$([0-9,]+)\s*penalty' at i
AmountPenaltyAt(s, i) ==
    IF ~(i <= Len(s) /\ Ch(s, i) = "$") THEN NoMatch
    ELSE LET e == SkipSet(s, i + 1, AmountChars)
         IN  IF e > i + 1 /\ LitAt(s, SkipSet(s, e, WS), "penalty")
             THEN Match(SubSeq(s, i + 1, e - 1))
             ELSE NoMatch

\* r'assessed\s*penalty\s*of\s*\$?([0-9,]+)' at i
AssessedPenaltyOfAt(s, i) ==
    IF ~LitAt(s, i, "assessed") THEN NoMatch
    ELSE PenaltyOfAt(s, SkipSet(s, i + Len("assessed"), WS))

\* penalty_patterns, in list order
PenaltyPatternAt(n, s, i) ==
    CASE n = 1 -> PenaltyOfAt(s, i)
      [] n = 2 -> FineOfAt(s, i)
      [] n = 3 -> AmountPenaltyAt(s, i)
      [] n = 4 -> AssessedPenaltyOfAt(s, i)

\* re.search(penalty_patterns[n], text, re.IGNORECASE): the leftmost match
SearchPenalty(n, s) ==
    LET starts == {i \in 1..Len(s) : PenaltyPatternAt(n, s, i).found}
    IN  IF starts = {} THEN NoMatch
        ELSE PenaltyPatternAt(n, s, CHOOSE i \in starts : \A j \in starts : i <= j)

\* PenaltyGroup with the commas taken out of the match
PenaltyGroupDigitsOnly(g) == Keep(g, DigitChars)

\* the group a penalty match stores: penalty_match.group(1).strip()
PenaltyGroup(g) == Strip(g)

\* `for pattern in penalty_patterns: ... break`: the first pattern that matches
RECURSIVE PenaltyFrom(_, _)
PenaltyFrom(n, s) ==
    IF n > 4 THEN ""
    ELSE LET m == SearchPenalty(n, s)
         IN  IF m.found THEN PenaltyGroup(m.group) ELSE PenaltyFrom(n + 1, s)
\* action_patterns, in list order: each pattern as the words its \s+ separate
ActionPatterns ==
    <<<<"Notice", "of", "Assessment", "of", "Penalties">>,
      <<"Curtailment">>,
      <<"Cease", "&", "Desist">>,
      <<"Directed", "Plan", "of", "Correction">>,
      <<"Lifting", "Curtailment">>,
      <<"Revocation">>,
      <<"Suspension">>>>

\* pattern.replace(r'\s+', ' '): the words with one space between them
RECURSIVE SpaceJoin(_)
SpaceJoin(words) ==
    IF Len(words) = 1 THEN words[1]
    ELSE words[1] \o " " \o SpaceJoin(Tail(words))

\* lit is at index i of s, case as given
StartsAt(s, i, lit) ==
    /\ i >= 1
    /\ i + Len(lit) - 1 <= Len(s)
    /\ SubSeq(s, i, i + Len(lit) - 1) = lit

\* the patterns' words in lower case, as re.IGNORECASE compares them
ActionWords ==
    [n \in DOMAIN ActionPatterns |->
        [k \in DOMAIN ActionPatterns[n] |-> Lower(ActionPatterns[n][k])]]

\* `w1\s+w2\s+...` (words in lower case) at index i of the lower-cased text:
\* the index after the match, or 0 when there is none
RECURSIVE WordsEndAt(_, _, _)
WordsEndAt(low, i, words) ==
    LET w == words[1]
        e == i + Len(w)
    IN  IF ~StartsAt(low, i, w) THEN 0
        ELSE IF Len(words) = 1 THEN e
        ELSE LET j == SkipSet(low, e, WS)
             IN  IF j = e THEN 0 ELSE WordsEndAt(low, j, Tail(words))

\* re.search(pattern, text, re.IGNORECASE) finds a match
SearchWords(low, words) ==
    \E i \in 1..Len(low) : WordsEndAt(low, i, words) > 0

\* the action type read from the text, ordered by where it first occurs
EnforcementActionTypeByPosition(text) ==
    LET low == Lower(text)
        first(n) == CHOOSE i \in 1..Len(low) :
                        /\ WordsEndAt(low, i, ActionWords[n]) > 0
                        /\ \A j \in 1..(i - 1) : WordsEndAt(low, j, ActionWords[n]) = 0
        hits == {n \in DOMAIN ActionPatterns : SearchWords(low, ActionWords[n])}
    IN  IF hits = {} THEN ""
        ELSE SpaceJoin(ActionPatterns[
                 CHOOSE n \in hits : \A m \in hits : first(n) < first(m) \/ (first(n) = first(m) /\ n <= m)])

\* the loop over action_patterns from pattern n on: the first pattern that
\* matches anywhere in the (lower-cased) text
RECURSIVE ActionFrom(_, _)
ActionFrom(n, low) ==
    IF n > Len(ActionPatterns) THEN ""
    ELSE IF SearchWords(low, ActionWords[n]) THEN SpaceJoin(ActionPatterns[n])
    ELSE ActionFrom(n + 1, low)

\* the action type read from the text
EnforcementActionType(text) == Once(Lower(text), LAMBDA low : ActionFrom(1, low))

\* _extract_key_violations keeps a match longer than this many characters
MinViolationChars == 20

\* _extract_key_violations returns at most this many items
MaxViolations == 10

\* [a-z], matched without re.IGNORECASE
LowerLetters == DOMAIN UpperOf

\* [\-\*] of the bullet class; its third member, the bullet U+2022, is not a
\* character of the model's texts
BulletChars == {"-", "*"}

\* violation_patterns, in list order, by the marker that opens an item
ViolationStyles == <<"numbered", "bulleted", "lettered">>

\* the marker of an item at index j (`[0-9]+\.`, the bullet class or `[a-z]\)`): the
\* index after it, or 0 when there is none
MarkerEnd(s, j, style) ==
    IF style = "numbered"
    THEN LET d == SkipSet(s, j, DigitChars)
         IN  IF d > j /\ d <= Len(s) /\ Ch(s, d) = "." THEN d + 1 ELSE 0
    ELSE IF style = "bulleted"
    THEN IF j <= Len(s) /\ Ch(s, j) \in BulletChars THEN j + 1 ELSE 0
    ELSE IF j < Len(s) /\ Ch(s, j) \in LowerLetters /\ Ch(s, j + 1) = ")"
         THEN j + 2 ELSE 0

\* index of the first "\n" at or after i, Len(s) + 1 when there is none
LineEnd(s, i) ==
    CHOOSE p \in i..(Len(s) + 1) :
        /\ p = Len(s) + 1 \/ Ch(s, p) = "\n"
        /\ \A q \in i..(p - 1) : Ch(s, q) # "\n"

\* one violation pattern tried at index i, under re.MULTILINE | re.DOTALL:
\*   (?:^|\n)\s*<marker>\s*(.+?)(?=\n\s*<marker>|\n\n|$)
\* `$` holds before every "\n", so the lazy group ends at the first line end
\* after its first character; when the \s* after the marker runs to the end
\* of the text it gives its last character back to the group.
ItemAt(s, i, style) ==
    IF ~(i = 1 \/ Ch(s, i - 1) = "\n" \/ Ch(s, i) = "\n") THEN [found |-> FALSE]
    ELSE LET m == MarkerEnd(s, SkipSet(s, i, WS), style)
             k == SkipSet(s, m, WS)
         IN  IF m = 0 THEN [found |-> FALSE]
             ELSE IF k <= Len(s)
             THEN [found |-> TRUE, group |-> SubSeq(s, k, LineEnd(s, k + 1) - 1),
                   end |-> LineEnd(s, k + 1)]
             ELSE IF k > m
             THEN [found |-> TRUE, group |-> Ch(s, Len(s)), end |-> Len(s) + 1]
             ELSE [found |-> FALSE]

\* the leftmost match of a violation pattern at or after index p, as a set:
\* empty when there is none
NextItem(s, p, style) ==
    {ItemAt(s, i, style) : i \in {i \in p..Len(s) :
        /\ ItemAt(s, i, style).found
        /\ \A j \in p..(i - 1) : ~ItemAt(s, j, style).found}}

\* re.findall(pattern, text, re.MULTILINE | re.DOTALL) from index pos on: the
\* groups of the successive leftmost matches
FindItems(s, pos, style) ==
    LET From[p \in 1..(Len(s) + 1)] ==
            Once(NextItem(s, p, style),
                 LAMBDA next : IF next = {} THEN <<>>
                               ELSE Once(CHOOSE m \in next : TRUE,
                                         LAMBDA m : <<m.group>> \o From[m.end]))
    IN  From[pos]

\* the inner loop: the stripped matches that are long enough
LongItems(groups) ==
    LET stripped == [n \in DOMAIN groups |-> Strip(groups[n])]
    IN  SelectSeq(stripped, LAMBDA v : Len(v) > MinViolationChars)

\* the list as it is, whatever its length
FirstViolationsUncut(violations) == violations

\* violations[:10]
FirstViolations(violations) ==
    SubSeq(violations, 1,
           IF Len(violations) < MaxViolations THEN Len(violations) ELSE MaxViolations)

\* the patterns taken last to first, from pattern n on
RECURSIVE ViolationsFromLast(_, _)
ViolationsFromLast(n, text) ==
    IF n > Len(ViolationStyles) THEN <<>>
    ELSE ViolationsFromLast(n + 1, text) \o LongItems(FindItems(text, 1, ViolationStyles[n]))

\* the outer loop over violation_patterns, from pattern n on
RECURSIVE ViolationsFrom(_, _)
ViolationsFrom(n, text) ==
    IF n > Len(ViolationStyles) THEN <<>>
    ELSE LongItems(FindItems(text, 1, ViolationStyles[n])) \o ViolationsFrom(n + 1, text)

\* _extract_key_violations
ExtractKeyViolations(text) == FirstViolations(ViolationsFrom(1, text))
\* [A-Z] and [a-z] under re.IGNORECASE
Letters == DOMAIN UpperOf \cup {UpperOf[c] : c \in DOMAIN UpperOf}

\* `[A-Z][a-z]+\s+[A-Z][a-z]+` at index i under re.IGNORECASE: two runs of at
\* least two letters with whitespace between them.  The first run and the
\* whitespace are taken whole; b is where the second run starts and end the
\* index after its longest form.
NameAt(s, i) ==
    Once(SkipSet(s, i, Letters), LAMBDA a :
    Once(SkipSet(s, a, WS), LAMBDA b :
    Once(SkipSet(s, b, Letters), LAMBDA c :
        [found |-> a >= i + 2 /\ b > a /\ c >= b + 2, b |-> b, end |-> c])))

\* the first of the title alternatives at index t: the index after it, or 0
RECURSIVE TitleEndAt(_, _, _)
TitleEndAt(low, t, titles) ==
    IF titles = <<>> THEN 0
    ELSE Once(WordsEndAt(low, t, <<titles[1]>>),
              LAMBDA e : IF e > 0 THEN e ELSE TitleEndAt(low, t, Tail(titles)))

\* `\s*\n.*<words>` at index t, without re.DOTALL: a newline in the
\* whitespace at t, and the words starting on the line after its last one
LineHas(low, t, words) ==
    Once({q \in t..(SkipSet(low, t, WS) - 1) : Ch(low, q) = "\n"},
         LAMBDA breaks :
            /\ breaks # {}
            /\ Once(CHOOSE q \in breaks : \A r \in breaks : r <= q,
                    LAMBDA q : \E j \in (q + 1)..(LineEnd(low, q + 1) - 1) :
                                  WordsEndAt(low, j, words) > 0))

\* where `,?\s*` ends when the name's second run ends at c: at c itself when
\* the run was cut short of its whole length
AfterName(low, c, end) ==
    IF c < end THEN c
    ELSE SkipSet(low, IF StartsAt(low, c, ",") THEN c + 1 ELSE c, WS)

\* `,?\s*(<titles>)<tail>` follows a name whose second run ends at c, where
\* the tail is nothing or `\s*\n.*<tail words>`
TitleFollows(low, c, end, titles, tail) ==
    Once(TitleEndAt(low, AfterName(low, c, end), titles),
         LAMBDA e : e > 0 /\ (tail = <<>> \/ LineHas(low, e, tail)))

\* `<name>,?\s*(<titles>)<tail>` at index i: the index after the name's
\* second run, or 0.  The run is tried longest first; cut short, the title
\* has to follow it at once.
NameTitleEndAt(s, low, i, titles, tail) ==
    Once(NameAt(s, i), LAMBDA nm :
        IF ~nm.found THEN 0
        ELSE Once({c \in (nm.b + 2)..nm.end : TitleFollows(low, c, nm.end, titles, tail)},
                  LAMBDA ends : IF ends = {} THEN 0
                                ELSE CHOOSE c \in ends : \A d \in ends : d <= c))

\* `^(<name>)\s*\n.*Administrator` at index i: the index after the name
NameLineEndAt(s, low, i) ==
    Once(NameAt(s, i), LAMBDA nm :
        IF nm.found /\ LineHas(low, nm.end, <<"administrator">>) THEN nm.end ELSE 0)

\* where the name starts after a label that ends at l and the separator
\* `[:\s]*` ("any"), `\s*[-:]\s*` ("mark") or `\s*` ("space"); 0 when the
\* separator is not there
NameStart(low, l, sep) ==
    IF sep = "any" THEN SkipSet(low, l, WS \cup {":"})
    ELSE Once(SkipSet(low, l, WS), LAMBDA m :
            IF sep = "space" THEN m
            ELSE IF StartsAt(low, m, "-") \/ StartsAt(low, m, ":")
            THEN SkipSet(low, m + 1, WS)
            ELSE 0)

\* `<label words><sep>(<name>)` at index i: where the name starts and the
\* index after it, or 0
LabelNameAt(s, low, i, label, sep) ==
    Once(WordsEndAt(low, i, label), LAMBDA l :
        IF l = 0 THEN [b |-> 0, end |-> 0]
        ELSE Once(NameStart(low, l, sep), LAMBDA b :
                IF b = 0 THEN [b |-> 0, end |-> 0]
                ELSE Once(NameAt(s, b), LAMBDA nm :
                        IF nm.found THEN [b |-> b, end |-> nm.end]
                        ELSE [b |-> 0, end |-> 0])))

\* `^` under re.MULTILINE
LineStart(s, i) == i = 1 \/ Ch(s, i - 1) = "\n"

NameFirst(anchored, titles, tail) ==
    [kind |-> "name_first", anchored |-> anchored, titles |-> titles, tail |-> tail]

LabelFirst(label, sep) == [kind |-> "label_first", label |-> label, sep |-> sep]

\* admin_patterns, in list order; the literals in lower case, as
\* re.IGNORECASE compares them
AdminPatterns ==
    <<NameFirst(FALSE, <<"administrator">>, <<>>),
      LabelFirst(<<"administrator">>, "any"),
      LabelFirst(<<"nursing", "home", "administrator">>, "any"),
      LabelFirst(<<"facility", "administrator">>, "any"),
      LabelFirst(<<"administrator">>, "mark"),
      LabelFirst(<<"contact", "person">>, "any"),
      LabelFirst(<<"director">>, "any"),
      LabelFirst(<<"ceo">>, "any"),
      LabelFirst(<<"chief", "executive", "officer">>, "any"),
      NameFirst(TRUE, <<"administrator">>, <<>>),
      [kind |-> "name_line"],
      NameFirst(FALSE, <<"administrator">>, <<>>),
      NameFirst(FALSE, <<"administrator">>, <<"health", "center">>),
      NameFirst(FALSE, <<"administrator">>, <<>>)>>

\* signature_patterns, in list order
SignaturePatterns ==
    <<LabelFirst(<<"sincerely,">>, "space"),
      LabelFirst(<<"best", "regards,">>, "space"),
      NameFirst(FALSE, <<"administrator", "director", "ceo">>, <<>>)>>

\* one pattern tried at index i: where group 1 of the match starts and the
\* index after it, or 0
MatchAt(s, low, i, p) ==
    IF p.kind = "label_first" THEN LabelNameAt(s, low, i, p.label, p.sep)
    ELSE IF p.kind = "name_line"
    THEN [b |-> i, end |-> IF LineStart(s, i) THEN NameLineEndAt(s, low, i) ELSE 0]
    ELSE [b |-> i, end |-> IF p.anchored /\ ~LineStart(s, i) THEN 0
                           ELSE NameTitleEndAt(s, low, i, p.titles, p.tail)]

\* one pattern tried at index i: group 1 of the match, "" when there is none
GroupAt(s, low, i, p) ==
    Once(MatchAt(s, low, i, p),
         LAMBDA m : IF m.end = 0 THEN "" ELSE SubSeq(s, m.b, m.end - 1))

\* the literals one of which a match of the pattern holds
Literals(p) ==
    IF p.kind = "label_first" THEN {p.label[1]}
    ELSE IF p.kind = "name_line" THEN {"administrator"}
    ELSE {p.titles[n] : n \in DOMAIN p.titles}

\* re.search(pattern, text, re.IGNORECASE | re.MULTILINE): group 1 of the
\* leftmost match, "" when the pattern matches nowhere, as it does in a text
\* that has none of its literals
SearchGroup(s, low, p) ==
    IF \A lit \in Literals(p) : ~Contains(lit, low) THEN ""
    ELSE Once([i \in 1..Len(s) |-> GroupAt(s, low, i, p)],
              LAMBDA groups :
                 IF \A i \in 1..Len(s) : groups[i] = "" THEN ""
                 ELSE groups[CHOOSE i \in 1..Len(s) :
                                 /\ groups[i] # ""
                                 /\ \A j \in 1..(i - 1) : groups[j] = ""])

\* the loop over a pattern list from pattern n on: group 1 of the first
\* pattern that matches, "" when none does
RECURSIVE FirstGroup(_, _, _, _)
FirstGroup(s, low, patterns, n) ==
    IF n > Len(patterns) THEN ""
    ELSE Once(SearchGroup(s, low, patterns[n]),
              LAMBDA group : IF group # "" THEN group
                             ELSE FirstGroup(s, low, patterns, n + 1))

\* full_name.split()[0] of a non-empty full name that starts with a letter
FirstToken(full_name) ==
    LET gaps == {i \in 1..Len(full_name) : Ch(full_name, i) \in WS}
    IN  IF gaps = {} THEN full_name
        ELSE SubSeq(full_name, 1, (CHOOSE i \in gaps : \A j \in gaps : i <= j) - 1)

\* default_names
DefaultNames ==
    {"Michael", "Sarah", "David", "Jennifer", "Robert", "Lisa", "James", "Mary",
     "John", "Patricia"}

\* the name the patterns find in a text, given with its lower-cased form:
\* admin_patterns first, signature_patterns when they all miss
MatchedIn(text, low, admin_patterns, signature_patterns) ==
    Once(FirstGroup(text, low, admin_patterns, 1),
         LAMBDA group : IF group # "" THEN group
                        ELSE FirstGroup(text, low, signature_patterns, 1))

\* match.group(1) of the pattern that matched, "" when every pattern missed
MatchedFullName(text) ==
    CHOOSE group \in {MatchedIn(text, low, admin_patterns, signature_patterns) :
                         low \in {Lower(text)}, admin_patterns \in {AdminPatterns},
                         signature_patterns \in {SignaturePatterns}} : TRUE

\* the group and its first token, also when no pattern matched
InfosOfNoDefault(full_name) ==
    {[full_name |-> full_name,
      first_name |-> IF full_name = "" THEN "" ELSE FirstToken(full_name)]}

\* what _extract_administrator_info returns for the stripped group: the name
\* and its first token, or when no pattern matched one of default_names,
\* as random.choice selects it
InfosOf(full_name) ==
    IF full_name # ""
    THEN {[full_name |-> full_name, first_name |-> FirstToken(full_name)]}
    ELSE {[full_name |-> first \o " [Administrator]", first_name |-> first] :
              first \in DefaultNames}

\* _extract_administrator_info: the dicts it can return for a text
AdministratorInfos(text) == Once(Strip(MatchedFullName(text)), InfosOf)

\* _parse_text_content, restricted to the fields modelled so far: the dicts
\* it can return, one for each dict _extract_administrator_info can return
ParseTextContent(text) ==
    {[raw_text |-> text,
      penalty_amount |-> penalty_amount,
      enforcement_action_type |-> enforcement_action_type,
      key_violations |-> key_violations,
      administrator_name |-> admin_info.full_name,
      administrator_first_name |-> admin_info.first_name] :
        penalty_amount \in {PenaltyFrom(1, text)},
        enforcement_action_type \in {EnforcementActionType(text)},
        key_violations \in {ExtractKeyViolations(text)},
        admin_info \in AdministratorInfos(text)}

\* what parse_pdf can return once the text is extracted: {} for an empty text
ParsePdfResults(text) ==
    IF text = "" THEN {EmptyDict} ELSE ParseTextContent(text)

\* parse_pdf, from `if not text_content:` to its return
CheckEmpty ==
    /\ pc = "check_empty"
    /\ parsed_data' \in ParsePdfResults(text_content)
    /\ pc' = "done"
    /\ UNCHANGED pdfVars
    /\ UNCHANGED procVars
    /\ UNCHANGED runVars

-----------------------------------------------------------------------------
(* Python values and datetime.  A datetime is a number of ticks since        *)
(* 2025-09-01 00:00; a day has TicksPerDay ticks.                           *)

\* resolution of the clock: ticks in one day
TicksPerDay == 2

PyNone == [type |-> "NoneType"]

PyStr(s) == [type |-> "str", s |-> s]

DateTime(t) == [type |-> "datetime", t |-> t]

PyDict(d) == [type |-> "dict", items |-> d]

Ok(v) == [ok |-> TRUE, val |-> v, exc |-> ""]

Raise(e) == [ok |-> FALSE, val |-> "", exc |-> e]

\* AttributeError raised by <value of type ty>.<attr>
AttributeError(ty, attr) ==
    "'" \o ty \o "' object has no attribute '" \o attr \o "'"

DigitOf == <<"1", "2", "3", "4", "5", "6", "7", "8", "9">>

\* one decimal digit as a character
DigitStr(n) == IF n = 0 THEN "0" ELSE DigitOf[n]

\* '%02d' of a number below 100
TwoDigits(n) == DigitStr(n \div 10) \o DigitStr(n % 10)

\* calendar of the modelled period: September, October, November 2025
MonthOfDay(d) == IF d < 30 THEN 9 ELSE IF d < 61 THEN 10 ELSE 11

DayOfMonth(d) == IF d < 30 THEN d + 1 ELSE IF d < 61 THEN d - 29 ELSE d - 60

\* the calendar day a datetime falls on
DayOf(t) == t \div TicksPerDay

\* date.strftime('%Y%m%d')
StrftimeCompact(t) ==
    "2025" \o TwoDigits(MonthOfDay(DayOf(t))) \o TwoDigits(DayOfMonth(DayOf(t)))

\* date.strftime('%Y-%m-%d')
StrftimeIso(t) ==
    "2025-" \o TwoDigits(MonthOfDay(DayOf(t))) \o "-" \o TwoDigits(DayOfMonth(DayOf(t)))

\* (a - b).days: timedelta.days is the floor of the difference in days
DaysBetween(a, b) == (a - b) \div TicksPerDay

\* str.replace(old, new) for a one-character old
RECURSIVE Replace(_, _, _)
Replace(s, old, new) ==
    IF s = "" THEN ""
    ELSE IF Len(s) = 1 THEN (IF s = old THEN new ELSE s)
    ELSE Replace(SubSeq(s, 1, Len(s) \div 2), old, new)
         \o Replace(SubSeq(s, Len(s) \div 2 + 1, Len(s)), old, new)

\* value of a string of decimal digits
RECURSIVE IntOf(_)
IntOf(s) ==
    IF s = "" THEN 0
    ELSE 10 * IntOf(SubSeq(s, 1, Len(s) - 1))
         + (CHOOSE n \in 0..9 : DigitStr(n) = Ch(s, Len(s)))

\* value of a string of decimal digits, as the float comparisons below need
\* it: exact up to 100000000 and held there above it (a Python float does
\* not overflow, and every amount it is compared with is far smaller)
RECURSIVE AmountOf(_)
AmountOf(s) ==
    IF s = "" THEN 0
    ELSE LET v == 10 * AmountOf(SubSeq(s, 1, Len(s) - 1))
                  + (CHOOSE n \in 0..9 : DigitStr(n) = Ch(s, Len(s)))
         IN  IF v > 100000000 THEN 100000000 ELSE v

\* float(s) for s made of digits and '.', as far as a comparison with a whole
\* number needs it: the integer part of the value, or ValueError
FloatOf(s) ==
    LET dots == Len(Keep(s, {"."}))
        dot == SkipSet(s, 1, DigitChars)
    IN  IF Keep(s, DigitChars) = "" \/ dots > 1 \/ Keep(s, DigitChars \cup {"."}) # s
        THEN Raise("ValueError")
        ELSE Ok(AmountOf(SubSeq(s, 1, dot - 1)))

-----------------------------------------------------------------------------
(* Data Reconciliation & Scoring: DataProcessor.  web_entry is a dict whose  *)
(* 'date' is a tagged value; pdf_data is a tagged value (a dict, or None).  *)

\* most characters of violation_details _extract_violation_summary keeps
SummaryMax == 500
\* _generate_entry_id that reads the clock for the date whatever web_entry holds
GenerateEntryIdFromClock(web, clock) ==
    LET facility_name == Get(web, "facility_name", "unknown")
    IN  Ok(Lower(Replace(Replace(
            facility_name \o "_" \o StrftimeCompact(clock), " ", "_"), "/", "_")))

\* _generate_entry_id: Ok(id), or the AttributeError of date.strftime
GenerateEntryId(web, clock) ==
    LET facility_name == Get(web, "facility_name", "unknown")
        date == Get(web, "date", DateTime(clock))
    IN  IF date.type # "datetime"
        THEN Raise(AttributeError(date.type, "strftime"))
        ELSE Ok(Lower(Replace(Replace(
                 facility_name \o "_" \o StrftimeCompact(date.t), " ", "_"), "/", "_")))
\* _extract_facility_name that reads the PDF's name only
ExtractFacilityNamePdfOnly(web, pdf) == Get(pdf, "facility_name", "")

\* _extract_facility_name
ExtractFacilityName(web, pdf) ==
    LET web_name == Get(web, "facility_name", "")
        pdf_name == Get(pdf, "facility_name", "")
    IN  IF pdf_name # "" /\ Len(pdf_name) > Len(web_name) THEN pdf_name
        ELSE IF web_name # "" THEN web_name ELSE pdf_name

\* _extract_enforcement_type
ExtractEnforcementType(web, pdf) ==
    LET web_action == Get(web, "enforcement_action", "")
        pdf_action == Get(pdf, "enforcement_action_type", "")
    IN  IF pdf_action # "" THEN pdf_action ELSE web_action

\* _extract_penalty_amount
ExtractPenaltyAmount(pdf) ==
    LET penalty == Get(pdf, "penalty_amount", "")
        cleaned == Keep(penalty, AmountChars)
    IN  IF penalty # "" /\ cleaned # "" THEN "$" \o cleaned ELSE ""

\* '; '.join(items)
RECURSIVE Join(_)
Join(items) ==
    IF Len(items) = 0 THEN ""
    ELSE IF Len(items) = 1 THEN items[1]
    ELSE items[1] \o "; " \o Join(Tail(items))

\* _extract_violation_summary
ExtractViolationSummary(pdf) ==
    LET violation_details == Get(pdf, "violation_details", "")
        key_violations == Get(pdf, "key_violations", <<>>)
    IN  IF Len(key_violations) > 0
        THEN Join(SubSeq(key_violations, 1, IF Len(key_violations) < 3
                                            THEN Len(key_violations) ELSE 3))
        ELSE IF Len(violation_details) > SummaryMax
        THEN SubSeq(violation_details, 1, SummaryMax) \o "..."
        ELSE violation_details

\* float(re.sub(r'[^\d.]', '', penalty_amount)) inside try/except ValueError:
\* Ok(amount), or not ok when the penalty is empty or float() raises
PenaltyValue(pdf) ==
    LET penalty_amount == ExtractPenaltyAmount(pdf)
    IN  IF penalty_amount = "" THEN Raise("absent")
        ELSE FloatOf(Keep(penalty_amount, DigitChars \cup {"."}))

\* AssessSeverity with the penalty rules tried before the action-type rule
AssessSeverityPenaltyFirst(web, pdf) ==
    LET action_type == Lower(ExtractEnforcementType(web, pdf))
        amount == PenaltyValue(pdf)
    IN  IF amount.ok /\ amount.val >= 10000 THEN "HIGH"
        ELSE IF amount.ok /\ amount.val >= 1000 THEN "MEDIUM"
        ELSE IF \E keyword \in {"revocation", "suspension", "cease"} :
               Contains(keyword, action_type)
        THEN "HIGH"
        ELSE IF \E keyword \in {"curtailment", "penalties"} :
               Contains(keyword, action_type)
        THEN "MEDIUM"
        ELSE "LOW"

\* _assess_severity
AssessSeverity(web, pdf) ==
    LET action_type == Lower(ExtractEnforcementType(web, pdf))
        amount == PenaltyValue(pdf)
    IN  IF \E keyword \in {"revocation", "suspension", "cease"} :
               Contains(keyword, action_type)
        THEN "HIGH"
        ELSE IF amount.ok /\ amount.val >= 10000 THEN "HIGH"
        ELSE IF amount.ok /\ amount.val >= 1000 THEN "MEDIUM"
        ELSE IF \E keyword \in {"curtailment", "penalties"} :
               Contains(keyword, action_type)
        THEN "MEDIUM"
        ELSE "LOW"

\* ActionScore with 'cease' scored as 'penalties' is
ActionScoreCeaseLow(action_type) ==
    IF Contains("revocation", action_type) \/ Contains("suspension", action_type) THEN 40
    ELSE IF Contains("curtailment", action_type) THEN 20
    ELSE IF Contains("penalties", action_type) \/ Contains("cease", action_type) THEN 15
    ELSE 0

\* _calculate_priority_score: base score by action type
ActionScore(action_type) ==
    IF Contains("revocation", action_type) \/ Contains("suspension", action_type) THEN 40
    ELSE IF Contains("cease", action_type) THEN 30
    ELSE IF Contains("curtailment", action_type) THEN 20
    ELSE IF Contains("penalties", action_type) THEN 15
    ELSE 0

\* _calculate_priority_score: penalty amount bonus
PenaltyScore(amount) ==
    IF ~amount.ok THEN 0
    ELSE IF amount.val >= 50000 THEN 30
    ELSE IF amount.val >= 10000 THEN 20
    ELSE IF amount.val >= 1000 THEN 10
    ELSE 0

\* _calculate_priority_score: number of violations bonus
ViolationScore(n) ==
    IF n >= 5 THEN 15 ELSE IF n >= 3 THEN 10 ELSE IF n >= 1 THEN 5 ELSE 0

\* _calculate_priority_score: recent date bonus, `if entry_date:` included
RecencyScore(entry_date, clock) ==
    IF entry_date.type # "datetime" THEN 0
    ELSE LET days_old == DaysBetween(clock, entry_date.t)
         IN  IF days_old <= 1 THEN 10 ELSE IF days_old <= 7 THEN 5 ELSE 0

Min(a, b) == IF a < b THEN a ELSE b

\* _calculate_priority_score
CalculatePriorityScore(web, pdf, clock) ==
    Min(ActionScore(Lower(ExtractEnforcementType(web, pdf)))
        + PenaltyScore(PenaltyValue(pdf))
        + ViolationScore(Len(Get(pdf, "key_violations", <<>>)))
        + RecencyScore(Get(web, "date", PyNone), clock),
        100)

\* days of month m (1..12) of year y
DaysInMonth(m, y) ==
    IF m = 2 THEN (IF (y % 4 = 0 /\ y % 100 # 0) \/ y % 400 = 0 THEN 29 ELSE 28)
    ELSE IF m \in {4, 6, 9, 11} THEN 30 ELSE 31

\* datetime.strptime(s, '%m/%d/%Y').strftime('%Y-%m-%d'), or ValueError
StrptimeMDY(s) ==
    LET i1 == SkipSet(s, 1, DigitChars)
        i2 == SkipSet(s, i1 + 1, DigitChars)
        mm == SubSeq(s, 1, i1 - 1)
        dd == SubSeq(s, i1 + 1, i2 - 1)
        yy == SubSeq(s, i2 + 1, Len(s))
    IN  IF /\ Len(mm) \in {1, 2} /\ Len(dd) \in {1, 2} /\ Len(yy) = 4
           /\ i2 <= Len(s) /\ Ch(s, i1) = "/" /\ Ch(s, i2) = "/"
           /\ Keep(yy, DigitChars) = yy
           /\ IntOf(mm) \in 1..12
           /\ IntOf(dd) \in 1..DaysInMonth(IntOf(mm), IntOf(yy))
        THEN Ok(yy \o "-" \o TwoDigits(IntOf(mm)) \o "-" \o TwoDigits(IntOf(dd)))
        ELSE Raise("ValueError")

\* _format_date
FormatDate(date_obj) ==
    IF date_obj.type = "datetime" THEN StrftimeIso(date_obj.t)
    ELSE IF date_obj.type = "str"
    THEN IF Contains("/", date_obj.s) /\ StrptimeMDY(date_obj.s).ok
         THEN StrptimeMDY(date_obj.s).val
         ELSE date_obj.s
    ELSE ""

\* the fields _calculate_completeness_score counts, key_violations apart
RequiredFields == {"facility_name", "enforcement_action_type", "enforcement_date"}

OptionalStrFields == {"facility_address", "facility_license_number", "penalty_amount",
                      "violation_summary", "effective_date"}
\* _calculate_completeness_score with the two weights even, 50 and 50
CalculateCompletenessScoreEven(structured) ==
    LET req == Cardinality({f \in RequiredFields : structured[f] # ""})
        opt == Cardinality({f \in OptionalStrFields : structured[f] # ""})
               + (IF Len(structured.key_violations) > 0 THEN 1 ELSE 0)
    IN  (1000 * req + 3) \div 6 + (500 * opt + 3) \div 6

\* _calculate_completeness_score, in tenths: round(required + optional, 1) * 10
CalculateCompletenessScore(structured) ==
    LET req == Cardinality({f \in RequiredFields : structured[f] # ""})
        opt == Cardinality({f \in OptionalStrFields : structured[f] # ""})
               + (IF Len(structured.key_violations) > 0 THEN 1 ELSE 0)
    IN  200 * req + (400 * opt + 3) \div 6

\* re.match(r'^\$?[\d,]+$', p)
PenaltyFormatOk(p) ==
    LET k == IF Len(p) >= 1 /\ Ch(p, 1) = "$" THEN 2 ELSE 1
        e == SkipSet(p, k, AmountChars)
    IN  e > k /\ (e = Len(p) + 1 \/ (e = Len(p) /\ Ch(p, e) = "\n"))

\* ValidationErrors with a missing action type an error too
ValidationErrorsStrict(structured) ==
    (IF structured.facility_name = "" THEN <<"Missing facility name">> ELSE <<>>)
    \o (IF structured.enforcement_action_type = ""
        THEN <<"Missing enforcement action type">> ELSE <<>>)

\* _validate_data: the errors list
ValidationErrors(structured) ==
    IF structured.facility_name = "" THEN <<"Missing facility name">> ELSE <<>>

\* _validate_data: the warnings list
ValidationWarnings(structured) ==
    (IF structured.enforcement_action_type = ""
     THEN <<"Missing enforcement action type">> ELSE <<>>)
    \o (IF structured.enforcement_date = ""
        THEN <<"Missing enforcement date">> ELSE <<>>)
    \o (IF structured.penalty_amount # "" /\ ~PenaltyFormatOk(structured.penalty_amount)
        THEN <<"Penalty amount format may be incorrect">> ELSE <<>>)
    \o (IF structured.facility_license_number # ""
           /\ Len(structured.facility_license_number) < 3
        THEN <<"License number seems too short">> ELSE <<>>)

\* ValidateData with valid also demanding an action type, errors unchanged
ValidateDataWarningsInvalidate(structured) ==
    [valid |-> Len(ValidationErrors(structured)) = 0
               /\ structured.enforcement_action_type # "",
     errors |-> ValidationErrors(structured),
     warnings |-> ValidationWarnings(structured),
     completeness_score |-> CalculateCompletenessScore(structured)]

\* _validate_data
ValidateData(structured) ==
    [valid |-> Len(ValidationErrors(structured)) = 0,
     errors |-> ValidationErrors(structured),
     warnings |-> ValidationWarnings(structured),
     completeness_score |-> CalculateCompletenessScore(structured)]

\* _extract_structured_data
ExtractStructuredData(web, pdf, clock) ==
    [facility_name |-> ExtractFacilityName(web, pdf),
     facility_address |-> Get(pdf, "facility_address", ""),
     facility_license_number |-> Get(pdf, "facility_license_number", ""),
     enforcement_date |-> FormatDate(Get(web, "date", PyNone)),
     enforcement_action_type |-> ExtractEnforcementType(web, pdf),
     penalty_amount |-> ExtractPenaltyAmount(pdf),
     violation_summary |-> ExtractViolationSummary(pdf),
     key_violations |-> Get(pdf, "key_violations", <<>>),
     effective_date |-> Get(pdf, "effective_date", ""),
     contact_information |-> Get(pdf, "contact_information", ""),
     pdf_url |-> Get(web, "pdf_url", ""),
     severity_level |-> AssessSeverity(web, pdf),
     priority_score |-> CalculatePriorityScore(web, pdf, clock)]

\* a record process_entry returns
Record(id, clock, web, pdf, structured, validation) ==
    [id |-> id, scraped_at |-> clock, web_data |-> web, pdf_data |-> pdf,
     structured_data |-> structured, validation |-> validation]

Returned(r) == [kind |-> "return", record |-> r, exc |-> ""]

Raised(e) == [kind |-> "raise", record |-> EmptyDict, exc |-> e]

NotCalled == [kind |-> "none", record |-> EmptyDict, exc |-> ""]

\* process_entry's try block: Ok(record), or the exception it raised.  The id
\* is generated first, so a web_entry whose 'date' is not a datetime raises
\* before any other line reads the date; a pdf_data that is not a dict raises
\* at the first pdf_data.get.
TryProcess(web, pdf, clock) ==
    LET id == GenerateEntryId(web, clock)
    IN  IF ~id.ok THEN Raise(id.exc)
        ELSE IF pdf.type # "dict" THEN Raise(AttributeError(pdf.type, "get"))
        ELSE LET structured == ExtractStructuredData(web, pdf.items, clock)
             IN  Ok(Record(id.val, clock, web, pdf, structured, ValidateData(structured)))

\* process_entry's except block, entered with the message str(e)
ExceptProcess(web, pdf, clock, e) ==
    LET id == GenerateEntryId(web, clock)
    IN  IF ~id.ok THEN Raised(id.exc)
        ELSE Returned(Record(id.val, clock, web, pdf, EmptyDict,
                             [valid |-> FALSE, errors |-> <<e>>]))

\* process_entry
ProcessEntry(web, pdf, clock) ==
    LET body == TryProcess(web, pdf, clock)
    IN  IF body.ok THEN Returned(body.val)
        ELSE ExceptProcess(web, pdf, clock, body.exc)

-----------------------------------------------------------------------------
(* The inputs the specifications draw from.                                 *)

\* the calendar day (counted from 2025-09-01) the clock starts on
StartDay == 30

\* the wall-clock readings a call may be made at: any tick of StartDay
Clocks == {StartDay * TicksPerDay + k : k \in 0..(TicksPerDay - 1)}

\* entry dates as parse_entries builds them: midnight of a calendar day
EntryDays == {0, 22, 23, 28, 29, 30, 31, 60}

WebDates == {DateTime(d * TicksPerDay) : d \in EntryDays}
                \cup {PyNone, PyStr("09/20/2025")}

WebNames == {"", "Acme Care", "St. Mary/Rehab Center"}

WebActions == {"", "Curtailment", "Notice of Assessment of Penalties"}

\* web entries: with a 'date' of any modelled type, or with no 'date' key
WebEntries ==
    {[date |-> d, facility_name |-> n, enforcement_action |-> a,
      pdf_url |-> "https://nj.gov/a.pdf"] :
        d \in WebDates, n \in WebNames, a \in WebActions}
    \cup {[facility_name |-> n, enforcement_action |-> a] :
        n \in WebNames, a \in WebActions}

PdfNames == {"", "Acme", "Acme Care Center LLC"}

PdfActions == {"", "Suspension", "Cease & Desist", "Lifting Curtailment"}

PdfPenalties == {"", "n/a", ",", "999", "1,000", "10,000", "50,000"}

Violation(n) == "Violation number " \o DigitStr(n) \o " of the cited regulation"

PdfViolations == {[i \in 1..n |-> Violation(i)] : n \in {0, 1, 3, 5}}

PdfLicenses == {"", "A1"}

\* a parsed dict with every field found
PdfComplete ==
    [facility_name |-> "Acme Care Center LLC",
     facility_address |-> "1 Main Street, Trenton, NJ 08608",
     facility_license_number |-> "NJ-123",
     enforcement_action_type |-> "Curtailment",
     penalty_amount |-> "1,000",
     violation_details |-> "Staffing below the required ratio.",
     corrective_actions |-> "Submit a plan of correction.",
     effective_date |-> "October 1, 2025",
     contact_information |-> "Phone: 609-555-0100",
     key_violations |-> <<Violation(1)>>]

\* pdf_data: parsed dicts that vary the scored fields, parsed dicts that vary
\* the identity fields, the {} parse_pdf returns on failure, and None
PdfDatas ==
    {PyDict([facility_name |-> "Acme", enforcement_action_type |-> a,
             penalty_amount |-> p, key_violations |-> v,
             facility_license_number |-> "NJ-123"]) :
        a \in PdfActions, p \in PdfPenalties, v \in PdfViolations}
    \cup {PyDict([facility_name |-> n, enforcement_action_type |-> a,
                  penalty_amount |-> p, key_violations |-> <<>>,
                  facility_license_number |-> l]) :
        n \in PdfNames, a \in {"", "Suspension"}, p \in {"0", "$1,000.00"},
        l \in PdfLicenses}
    \cup {PyDict(PdfComplete), PyDict(EmptyDict), PyNone}

\* most text fragments a parsed text is made of
MaxFrags == 3

Fragments == {"penalty of $", "1,234", "Penalty  of\n", "56,000", " fine of ", "$",
              " penalty", "assessed ", ".", ","}

RECURSIVE TextsOf(_)
TextsOf(n) ==
    IF n = 0 THEN {""}
    ELSE LET shorter == TextsOf(n - 1)
         IN  shorter \cup {t \o f : t \in shorter, f \in Fragments}

\* the texts handed to _parse_text_content
ParseTexts == TextsOf(MaxFrags) \ {""}

\* most items of one list in a text
MaxItems == 11

DigitSeq == <<"0", "1", "2", "3", "4", "5", "6", "7", "8", "9">>

\* str(n) for 0 <= n < 100
NumStr(n) ==
    IF n < 10 THEN DigitSeq[n + 1] ELSE DigitSeq[(n \div 10) + 1] \o DigitSeq[(n % 10) + 1]

\* how long the items of a list are: all long, every second one short, or
\* alternately exactly 20 and exactly 21 characters
Profiles == {"long", "mixed", "edge"}

\* the text of item k of a list: a tag that names the list style and k, and
\* words that bring it to the length the profile asks for
ItemBody(style, k, profile) ==
    LET tag == (IF style = "numbered" THEN "N" ELSE IF style = "bulleted" THEN "B" ELSE "L")
               \o NumStr(k)
    IN  IF profile = "long" \/ (profile = "mixed" /\ k % 2 = 1)
        THEN tag \o " care plan was not updated"
        ELSE IF profile = "mixed" THEN tag \o " late"
        ELSE SubSeq(tag \o " chart was not signed", 1, IF k % 2 = 1 THEN 20 ELSE 21)

\* the line of item k: its marker, its text, and for a lettered item a
\* trailing blank
ItemLine(style, k, profile) ==
    (IF style = "numbered" THEN NumStr(k) \o ". "
     ELSE IF style = "bulleted" THEN (IF k % 2 = 1 THEN "  - " ELSE "*")
     ELSE (IF k % 2 = 1 THEN "a) " ELSE "b)\t"))
    \o ItemBody(style, k, profile)
    \o (IF style = "lettered" THEN " \n" ELSE "\n")

\* the lines of items k..count of a list
RECURSIVE ListFrom(_, _, _, _)
ListFrom(style, k, count, profile) ==
    IF k > count THEN ""
    ELSE ItemLine(style, k, profile) \o ListFrom(style, k + 1, count, profile)

\* the orders in which the lists of a notice follow one another
ListOrders ==
    {<<"numbered", "bulleted", "lettered">>, <<"bulleted", "numbered", "lettered">>,
     <<"lettered", "bulleted", "numbered">>}

\* notices with up to three lists: count[style] items of each, in the given
\* order, a blank line after each list
ListText(order, count, profile) ==
    LET list(n) == IF count[order[n]] = 0 THEN ""
                   ELSE ListFrom(order[n], 1, count[order[n]], profile) \o "\n"
    IN  "Findings of the survey\n" \o list(1) \o list(2) \o list(3)

ListTexts ==
    {ListText(order, [numbered |-> n, bulleted |-> b, lettered |-> l], profile) :
        order \in ListOrders, n \in 0..MaxItems, b \in {0, 2}, l \in {0, 1},
        profile \in Profiles}

\* how a notice names an action: the vocabulary as the patterns spell it,
\* other spellings of case and whitespace, and phrases that do not match
ActionMentions ==
    {SpaceJoin(ActionPatterns[n]) : n \in DOMAIN ActionPatterns}
    \cup {"notice of assessment\nof penalties", "CEASE  &\tDESIST", "revocation",
          "directed plan of  correction"}
    \cup {"Cease and Desist", "Notice of Penalties", "Suspended", "Curtail ment"}

\* notices that name one action or two
ActionTexts ==
    {"The Department orders: " \o m \o "." : m \in ActionMentions}
    \cup {m1 \o " is lifted.\n" \o m2 \o " is ordered." :
             m1 \in ActionMentions, m2 \in ActionMentions}

\* notices that name an administrator in the ways the patterns look for, and
\* notices that name none
AdminTexts ==
    {"Jane Roe, Administrator", "jane roe administrator", "Mary-Ann LeeAdministrator",
     "Administrator: Jane Roe", "Nursing Home Administrator\nJane  Roe",
     "Facility Administrator Jane Roe", "Administrator - Jane Roe",
     "Contact Person: Jane Roe", "Director: Jane Roe", "CEO Jane Roe",
     "Chief Executive Officer: Jane Roe", "Jane Roe\nLicensed Administrator",
     "Jane Roe, Administrator\nAcme Health Center", "Sincerely,\nJane Roe",
     "Best regards, Jane Roe", "Jane Roe, Director", "J. Roe, CEO",
     "Dear Jane Roe,\nthe Administrator was told.", "To the Administrator",
     "Administrator: J. Roe", "Sincerely, the Department", "Jane Administrator"}

\* the texts whose fields are read
FieldTexts == ListTexts \cup ActionTexts \cup AdminTexts

\* the web entry the parsed fields are reconciled with
PlainEntry == [date |-> DateTime(StartDay * TicksPerDay), facility_name |-> "Acme Care",
               enforcement_action |-> "Curtailment", pdf_url |-> "https://nj.gov/a.pdf"]

-----------------------------------------------------------------------------
(* Specifications.                                                          *)

\* the variables of the calls a specification does not make
PdfIdle ==
    /\ num_pages = 0 /\ page = 0 /\ x_text = "" /\ a_text = ""
    /\ a_threw = FALSE /\ b_threw = FALSE /\ attempts = <<>> /\ direct_text = ""
    /\ ocr_calls = 0 /\ ocr_acc = "" /\ ocr_threw = FALSE

ProcIdle ==
    /\ web_entry = PlainEntry /\ pdf_data = PyNone
    /\ now = StartDay * TicksPerDay /\ result = NotCalled

RepeatIdle == first_result = NotCalled

ScrapeIdle ==
    /\ site = <<>> /\ last_check_file = PyNone /\ new_entries = NotCalled
    /\ returned = <<>> /\ checked_site = <<>>

LoopIdle ==
    /\ entrypoint = "" /\ database_manager = FALSE /\ idx = 0
    /\ processed_entries = <<>> /\ skipped = <<>> /\ store_calls = <<>>
    /\ email_calls = <<>> /\ run_result = NotCalled

FieldIdle == parse_error = ""

DbIdle == table = <<>>

SchedIdle ==
    /\ running = FALSE /\ scheduler_thread = PyNone /\ loop_threads = <<>>
    /\ caller = "" /\ calls = <<>> /\ minute = 0 /\ jobs = <<>> /\ task_runs = <<>>

ThreadIdle == runs = <<>> /\ SchedIdle

RestIdle == FieldIdle /\ DbIdle /\ ThreadIdle

RunIdle == RepeatIdle /\ ScrapeIdle /\ LoopIdle /\ RestIdle

\* parse_pdf is called on a document of num_pages pages
Init ==
    /\ pc = "a_open"
    /\ num_pages \in 0..MaxPages
    /\ page = 0 /\ x_text = "" /\ a_text = "" /\ a_threw = FALSE /\ b_threw = FALSE
    /\ attempts = <<>> /\ direct_text = "" /\ ocr_calls = 0 /\ ocr_acc = ""
    /\ ocr_threw = FALSE /\ text_content = "" /\ parsed_data = EmptyDict
    /\ ProcIdle
    /\ RunIdle

Next ==
    \/ PlumberOpen \/ PlumberPage \/ PlumberDone
    \/ PyPdfOpen \/ PyPdfPage \/ PyPdfDone
    \/ Threshold
    \/ OcrOpen \/ OcrPage \/ OcrDone
    \/ CheckEmpty

Spec == Init /\ [][Next]_vars

\* _parse_text_content is called on a text, and its result is reconciled
ParseFields ==
    /\ pc = "parse_text"
    /\ parsed_data' \in ParseTextContent(text_content)
    /\ pc' = "parsed"
    /\ UNCHANGED pdfVars
    /\ UNCHANGED procVars
    /\ UNCHANGED runVars

Reconcile ==
    /\ pc = "parsed"
    /\ pdf_data' = PyDict(parsed_data)
    /\ result' = ProcessEntry(web_entry, PyDict(parsed_data), now)
    /\ pc' = "reconciled"
    /\ UNCHANGED <<web_entry, now, parsed_data>>
    /\ UNCHANGED pdfVars
    /\ UNCHANGED runVars

InitParse ==
    /\ pc = "parse_text"
    /\ PdfIdle
    /\ text_content \in ParseTexts
    /\ parsed_data = EmptyDict
    /\ ProcIdle
    /\ RunIdle

NextParse == ParseFields \/ Reconcile

SpecParse == InitParse /\ [][NextParse]_vars

\* _parse_text_content on a notice with lists, action types and names
InitFields ==
    /\ pc = "parse_text"
    /\ PdfIdle
    /\ text_content \in FieldTexts
    /\ parsed_data = EmptyDict
    /\ ProcIdle
    /\ RunIdle

SpecFields == InitFields /\ [][NextParse]_vars

\* process_entry is called on a web entry and a pdf_data
CallProcessEntry ==
    /\ pc = "process_entry"
    /\ result' = ProcessEntry(web_entry, pdf_data, now)
    /\ pc' = "processed"
    /\ UNCHANGED <<web_entry, pdf_data, now, parsed_data>>
    /\ UNCHANGED pdfVars
    /\ UNCHANGED runVars

InitProcess ==
    /\ pc = "process_entry"
    /\ PdfIdle
    /\ text_content = "" /\ parsed_data = EmptyDict
    /\ web_entry \in WebEntries
    /\ pdf_data \in PdfDatas
    /\ now \in Clocks
    /\ result = NotCalled
    /\ RunIdle

NextProcess == CallProcessEntry

SpecProcess == InitProcess /\ [][NextProcess]_vars

-----------------------------------------------------------------------------
(* Properties of the Text Extraction and OCR layers, checked under Spec.     *)

\* _extract_text_from_pdf has returned
ExtractReturned == pc \notin {"a_open", "a_page", "b_open", "b_page"}

\* method A raised, or yielded no non-whitespace text
MethodAFailed == a_threw \/ NonWsCount(a_text) = 0

\* method B raised, or added no non-whitespace text to what A left
MethodBFailed == b_threw \/ NonWsCount(x_text) = NonWsCount(a_text)

\* C2: extract_text never raises, and whenever both method A and method B
\* fail or throw, in any combination and at any page, it returns the empty
\* string.
C2_EmptyWhenBothFail ==
    (ExtractReturned /\ MethodAFailed /\ MethodBFailed) => direct_text = ""

\* C3: parse_pdf invokes OCR only when the direct-extraction output has fewer
\* than 50 non-whitespace characters; with 50 or more, OCR is never invoked
\* in that run.
C3_OcrOnlyBelowThreshold ==
    /\ ocr_calls > 0 => NonWsCount(direct_text) < 50
    /\ (ExtractReturned /\ NonWsCount(direct_text) >= 50)
           => (ocr_calls = 0 /\ pc \notin {"o_open", "o_page"})

\* a run that ended without OCR on a direct text of exactly 50 characters
C3_Witness ==
    pc = "done" /\ ocr_calls = 0 /\ NonWsCount(direct_text) = 50

\* C4: the methods are tried in the fixed order A then B; if A yields any
\* non-whitespace text the function returns it at once and B is never
\* attempted; B is attempted exactly when A threw or yielded only whitespace.
C4_MethodOrder ==
    /\ attempts \in {<<>>, <<"A">>, <<"A", "B">>}
    /\ pc \in {"b_open", "b_page"} => MethodAFailed
    /\ ExtractReturned =>
          /\ (attempts = <<"A", "B">>) <=> MethodAFailed
          /\ ~MethodAFailed => (attempts = <<"A">> /\ direct_text = a_text)

\* method B was attempted because A, without raising, yielded only whitespace
C4_Witness ==
    pc = "done" /\ attempts = <<"A", "B">> /\ ~a_threw /\ a_text # ""

\* C5: OCR extraction is all-or-nothing: after an exception on any page
\* _extract_text_with_ocr returns the empty string, never the text of the
\* pages before the failure, and parse_pdf ends without raising.
C5_OcrAllOrNothing ==
    ocr_threw => /\ text_content = ""
                 /\ pc \in {"check_empty", "done"}
                 /\ pc = "done" => parsed_data = EmptyDict

\* OCR failed on a later page, after text of an earlier page had accumulated
C5_Witness ==
    pc = "done" /\ ocr_threw /\ NonWsCount(ocr_acc) > 0

\* C20: the text _extract_text_from_pdf returns is the newline-separated,
\* page-ordered concatenation produced by a single extraction method: it is
\* the text method A accumulated, or a text that holds no page text of
\* method A.  It never mixes page text accumulated by method A before A threw
\* with page text produced by method B.
C20_SingleMethod ==
    ExtractReturned => \/ direct_text = a_text
                       \/ NonWsCount(a_text) = 0

-----------------------------------------------------------------------------
(* Properties of reconciliation and scoring, checked under SpecProcess.      *)

\* process_entry returned the record its try block built
NormalPath ==
    /\ result.kind = "return"
    /\ DOMAIN result.record.structured_data # {}

\* process_entry returned the record its except block built
RecoveryPath ==
    /\ result.kind = "return"
    /\ DOMAIN result.record.structured_data = {}

\* the arguments' fields, as the claims name them
WebName == Get(web_entry, "facility_name", "")

PdfName == Get(pdf_data.items, "facility_name", "")

ReconciledAction ==
    LET pdf_action == Get(pdf_data.items, "enforcement_action_type", "")
    IN  Lower(IF pdf_action # "" THEN pdf_action
              ELSE Get(web_entry, "enforcement_action", ""))

\* the penalty as a number: the digits of the PDF value, -1 when it has none
PenaltyNumber ==
    LET digits == Keep(Get(pdf_data.items, "penalty_amount", ""), DigitChars)
    IN  IF digits = "" THEN -1 ELSE AmountOf(digits)

\* C1: process_entry never propagates an exception: for every web_entry and
\* pdf_data, a web_entry whose 'date' is None or a string included, an
\* exception raised during reconciliation is recovered and the call returns a
\* record with empty structured_data and validation {valid: false,
\* errors: [exception message]}.
C1_NeverPropagates ==
    pc = "processed" =>
        /\ result.kind = "return"
        /\ ~TryProcess(web_entry, pdf_data, now).ok =>
              /\ result.record.structured_data = EmptyDict
              /\ result.record.validation =
                     [valid |-> FALSE,
                      errors |-> <<TryProcess(web_entry, pdf_data, now).exc>>]

\* C6: every record process_entry returns whose validation.valid is false has
\* a non-empty validation.errors list, on the normal path and on the
\* exception-recovery path.
C6_InvalidHasErrors ==
    (result.kind = "return" /\ ~result.record.validation.valid)
        => Len(result.record.validation.errors) > 0

\* an invalid record built by the except block
C6_Witness ==
    pc = "processed" /\ RecoveryPath /\ ~result.record.validation.valid

\* C7: on the normal path valid is false if and only if the reconciled
\* facility_name is empty (the web and the PDF name both empty), and errors
\* is then exactly ["Missing facility name"]; a missing action type, a missing
\* date, a malformed penalty or a short license number never make the record
\* invalid.
C7_InvalidIffNoName ==
    NormalPath =>
        LET v == result.record.validation
            name == result.record.structured_data.facility_name
        IN  /\ (name = "") <=> (WebName = "" /\ PdfName = "")
            /\ ~v.valid <=> (name = "")
            /\ v.errors = IF name = "" THEN <<"Missing facility name">> ELSE <<>>

\* a valid record that lacks action type and date and has a short license
C7_Witness ==
    /\ pc = "processed" /\ NormalPath
    /\ result.record.validation.valid
    /\ result.record.structured_data.enforcement_action_type = ""
    /\ result.record.structured_data.enforcement_date = ""
    /\ result.record.structured_data.facility_license_number = "A1"
    /\ Len(result.record.validation.warnings) = 3

\* C8: severity is decided by the first matching rule: HIGH if the reconciled
\* action type contains 'revocation', 'suspension' or 'cease'; else HIGH if
\* penalty >= 10000; else MEDIUM if penalty >= 1000; else MEDIUM if the action
\* type contains 'curtailment' or 'penalties'; else LOW.  A penalty without
\* digits counts as absent.
C8_SeverityRules ==
    NormalPath =>
        result.record.structured_data.severity_level =
            (IF \/ Contains("revocation", ReconciledAction)
                \/ Contains("suspension", ReconciledAction)
                \/ Contains("cease", ReconciledAction) THEN "HIGH"
             ELSE IF PenaltyNumber >= 10000 THEN "HIGH"
             ELSE IF PenaltyNumber >= 1000 THEN "MEDIUM"
             ELSE IF \/ Contains("curtailment", ReconciledAction)
                     \/ Contains("penalties", ReconciledAction) THEN "MEDIUM"
             ELSE "LOW")

\* action type 'Suspension' with a penalty of 0 is HIGH
C8_Witness ==
    /\ pc = "processed" /\ NormalPath
    /\ ReconciledAction = "suspension"
    /\ PenaltyNumber = 0
    /\ result.record.structured_data.severity_level = "HIGH"

\* the distance between the entry date and now, in whole days
DateDistance ==
    LET t == web_entry.date.t
    IN  (IF now >= t THEN now - t ELSE t - now) \div TicksPerDay

\* C9: priority_score = min(100, A + P + V + R), with A 40/30/20/15/0 by
\* action type, P 30/20/10/0 by penalty, V 15/10/5/0 by the number of key
\* violations, and R 10 if the entry date is within 1 day of now, 5 if within
\* 7 days of now, 0 otherwise (dates more than 7 days away from now included).
C9_PriorityFormula ==
    NormalPath =>
        LET A == IF \/ Contains("revocation", ReconciledAction)
                    \/ Contains("suspension", ReconciledAction) THEN 40
                 ELSE IF Contains("cease", ReconciledAction) THEN 30
                 ELSE IF Contains("curtailment", ReconciledAction) THEN 20
                 ELSE IF Contains("penalties", ReconciledAction) THEN 15
                 ELSE 0
            P == IF PenaltyNumber >= 50000 THEN 30
                 ELSE IF PenaltyNumber >= 10000 THEN 20
                 ELSE IF PenaltyNumber >= 1000 THEN 10
                 ELSE 0
            n == Len(Get(pdf_data.items, "key_violations", <<>>))
            V == IF n >= 5 THEN 15 ELSE IF n >= 3 THEN 10 ELSE IF n >= 1 THEN 5 ELSE 0
            R == IF "date" \notin DOMAIN web_entry THEN 0
                 ELSE IF DateDistance <= 1 THEN 10
                 ELSE IF DateDistance <= 7 THEN 5
                 ELSE 0
        IN  result.record.structured_data.priority_score = Min(100, A + P + V + R)

-----------------------------------------------------------------------------
(* Properties of field extraction, checked under SpecParse.                  *)
\* how many of the 3 required fields of the returned record are non-empty
RequiredCount ==
    LET s == result.record.structured_data
    IN  (IF s.facility_name # "" THEN 1 ELSE 0)
        + (IF s.enforcement_action_type # "" THEN 1 ELSE 0)
        + (IF s.enforcement_date # "" THEN 1 ELSE 0)

\* how many of the 6 optional fields of the returned record are non-empty
OptionalCount ==
    LET s == result.record.structured_data
    IN  (IF s.facility_address # "" THEN 1 ELSE 0)
        + (IF s.facility_license_number # "" THEN 1 ELSE 0)
        + (IF s.penalty_amount # "" THEN 1 ELSE 0)
        + (IF s.violation_summary # "" THEN 1 ELSE 0)
        + (IF s.key_violations # <<>> THEN 1 ELSE 0)
        + (IF s.effective_date # "" THEN 1 ELSE 0)

\* C18: completeness_score equals 60 * (number of the 3 required fields
\* facility_name, enforcement_action_type, enforcement_date that are
\* non-empty) / 3 plus 40 * (number of the 6 optional fields that are
\* non-empty) / 6, rounded to one decimal: in tenths, it is the integer
\* nearest to 200 * required + 400 * optional / 6.  A record with all three
\* required fields and no optional field scores exactly 60.0, and the score
\* always lies between 0 and 100.
C18_CompletenessFormula ==
    pc = "processed" /\ NormalPath =>
        LET score == result.record.validation.completeness_score
        IN  /\ 6 * score - (1200 * RequiredCount + 400 * OptionalCount) \in -3..3
            /\ RequiredCount = 3 /\ OptionalCount = 0 => score = 600
            /\ score \in 0..1000

\* a record with the three required fields and no optional field
C18_Witness ==
    /\ pc = "processed" /\ NormalPath
    /\ RequiredCount = 3 /\ OptionalCount = 0
    /\ result.record.validation.completeness_score = 600

\* where the phrasing 'penalty of $' stands in the parsed text (0: nowhere)
PenaltyOfStart ==
    LET at == {i \in 1..(Len(text_content) - 11) :
                  SubSeq(text_content, i, i + 11) = "penalty of $"}
    IN  IF at = {} THEN 0 ELSE CHOOSE i \in at : \A j \in at : i <= j

\* the run of digits and commas that follows 'penalty of $'
PenaltyRun ==
    SubSeq(text_content, PenaltyOfStart + 12,
           SkipSet(text_content, PenaltyOfStart + 12, AmountChars) - 1)

\* the text has one penalty phrasing, and it is 'penalty of $X'
OnlyPenaltyOf ==
    /\ PenaltyOfStart > 0
    /\ Cardinality({i \in 1..Len(text_content) : LitAt(text_content, i, "penalty")}) = 1
    /\ ~Contains("fine", Lower(text_content))

\* s is a number written with comma thousands separators: \d{1,3}(,\d{3})+
RECURSIVE CommaGroups(_)
CommaGroups(s) ==
    IF Len(s) <= 3 THEN Len(s) >= 1 /\ Keep(s, DigitChars) = s
    ELSE /\ Ch(s, Len(s) - 3) = ","
         /\ Keep(SubSeq(s, Len(s) - 2, Len(s)), DigitChars) = SubSeq(s, Len(s) - 2, Len(s))
         /\ CommaGroups(SubSeq(s, 1, Len(s) - 4))

\* C10, as claimed: for a text whose only penalty phrasing is 'penalty of $X',
\* X written with comma thousands separators, field extraction yields the
\* digits of X with the commas removed ('1234') and reconciliation yields '$'
\* followed by those digits only ('$1234').
C10_CommasRemoved ==
    (OnlyPenaltyOf /\ Len(PenaltyRun) > 3 /\ CommaGroups(PenaltyRun)) =>
        /\ pc \in {"parsed", "reconciled"} =>
              parsed_data.penalty_amount = Keep(PenaltyRun, DigitChars)
        /\ pc = "reconciled" =>
              result.record.structured_data.penalty_amount
                  = "$" \o Keep(PenaltyRun, DigitChars)

\* C10, amended: for a text whose only penalty phrasing is 'penalty of $X',
\* field extraction yields the whole run of digits and commas that follows
\* the '$', commas kept ('1,234'), and reconciliation yields '$' followed by
\* that run unchanged ('$1,234').
C10_CommasKept ==
    (OnlyPenaltyOf /\ Contains(",", PenaltyRun)) =>
        /\ pc \in {"parsed", "reconciled"} =>
              parsed_data.penalty_amount = PenaltyRun
        /\ pc = "reconciled" =>
              /\ result.kind = "return"
              /\ result.record.structured_data.penalty_amount = "$" \o PenaltyRun

\* 'penalty of $1,234.' was parsed and reconciled
C10_Witness ==
    /\ pc = "reconciled"
    /\ OnlyPenaltyOf
    /\ PenaltyRun = "1,234"
    /\ parsed_data.penalty_amount = "1,234"
    /\ result.record.structured_data.penalty_amount = "$1,234"

-----------------------------------------------------------------------------
(* Properties of the lists, action types and names read from a notice,      *)
(* checked under SpecFields.                                                *)

\* _parse_text_content has just returned
FieldsParsed == pc = "parsed"

\* the items that pass the length filter, in the order the scan finds them
Survivors == ViolationsFrom(1, text_content)

\* C13: key_violations has at most 10 items and every item is longer than 20
\* characters; when more than 10 items survive the length filter, exactly the
\* first 10 in scan order are kept and the rest are discarded.
C13_KeyViolationsCapped ==
    FieldsParsed =>
        LET kv == parsed_data.key_violations
        IN  /\ Len(kv) <= 10
            /\ \A n \in DOMAIN kv : Len(kv[n]) > 20
            /\ Len(Survivors) > 10 => kv = SubSeq(Survivors, 1, 10)

\* a notice with more than 10 long items was parsed, and items were dropped
C13_Witness ==
    /\ FieldsParsed
    /\ Len(Survivors) > 10
    /\ Len(parsed_data.key_violations) = 10
    /\ Survivors[11] \notin {parsed_data.key_violations[n] : n \in 1..10}

\* where item first occurs in text at or after index from, as a set
NextOccurrence(item, text, from) ==
    {i \in from..(Len(text) - Len(item) + 1) :
        /\ SubSeq(text, i, i + Len(item) - 1) = item
        /\ \A j \in from..(i - 1) : SubSeq(text, j, j + Len(item) - 1) # item}

\* the items occur in the text one after another, in the order of the list
RECURSIVE InDocumentOrder(_, _, _)
InDocumentOrder(items, text, from) ==
    \/ items = <<>>
    \/ \E i \in NextOccurrence(items[1], text, from) :
           InDocumentOrder(Tail(items), text, i + Len(items[1]))

\* the long items one list style matches in the parsed text
StyleItems(style) == LongItems(FindItems(text_content, 1, style))

IsPrefix(short, long) ==
    Len(short) <= Len(long) /\ short = SubSeq(long, 1, Len(short))

\* C14, as claimed: the items of key_violations appear in the same relative
\* order as they occur in the document.
C14_DocumentOrder ==
    FieldsParsed => InDocumentOrder(parsed_data.key_violations, text_content, 1)

\* C14, amended: the items of key_violations that one list style matched
\* appear in the same relative order as they occur in the document, and the
\* items of the numbered style come before those of the bulleted style, which
\* come before those of the lettered style.
C14_OrderWithinStyle ==
    FieldsParsed =>
        /\ \A style \in {"numbered", "bulleted", "lettered"} :
               InDocumentOrder(StyleItems(style), text_content, 1)
        /\ IsPrefix(parsed_data.key_violations,
                    StyleItems("numbered") \o StyleItems("bulleted")
                        \o StyleItems("lettered"))

\* a notice whose bulleted list comes before its numbered list was parsed:
\* the numbered items are first in key_violations
C14_Witness ==
    /\ FieldsParsed
    /\ Len(StyleItems("numbered")) >= 2
    /\ Len(StyleItems("bulleted")) >= 1
    /\ Len(parsed_data.key_violations)
           >= Len(StyleItems("numbered")) + Len(StyleItems("bulleted"))
    /\ ~InDocumentOrder(parsed_data.key_violations, text_content, 1)

\* the closed vocabulary of action types, in list order
Vocabulary ==
    <<"Notice of Assessment of Penalties", "Curtailment", "Cease & Desist",
      "Directed Plan of Correction", "Lifting Curtailment", "Revocation", "Suspension">>

\* characters lo..hi of s with every run of whitespace made one blank
RECURSIVE Squeeze(_, _, _)
Squeeze(s, lo, hi) ==
    IF lo > hi THEN ""
    ELSE IF lo = hi
    THEN (IF Ch(s, lo) \notin WS THEN Ch(s, lo)
          ELSE IF lo > 1 /\ Ch(s, lo - 1) \in WS THEN "" ELSE " ")
    ELSE Squeeze(s, lo, (lo + hi) \div 2) \o Squeeze(s, (lo + hi) \div 2 + 1, hi)

\* the literal occurs in the text, whatever the case of its letters and the
\* whitespace between its words
Occurs(literal, text) ==
    Contains(Lower(literal), Lower(Squeeze(text, 1, Len(text))))

\* the first literal of the vocabulary, in list order, among those numbered
\* in found; "" when found is empty
FirstOf(found) ==
    IF found = {} THEN "" ELSE Vocabulary[CHOOSE n \in found : \A m \in found : n <= m]

\* C15, as claimed: enforcement_action_type is empty when no vocabulary
\* literal occurs in the text, and otherwise is the first literal, in the
\* 7-item list order, that occurs anywhere in the text (case-insensitively),
\* wherever in the document it occurs; the value is always a member of the
\* vocabulary.
C15_FirstLiteralInText ==
    FieldsParsed =>
        LET type == parsed_data.enforcement_action_type
            low == Lower(text_content)
        IN  /\ type = FirstOf({n \in DOMAIN Vocabulary : Contains(Lower(Vocabulary[n]), low)})
            /\ type # "" => \E n \in DOMAIN Vocabulary : type = Vocabulary[n]

\* C15, amended: enforcement_action_type is empty when no vocabulary literal
\* occurs in the text, and otherwise is the first literal, in the 7-item list
\* order, that occurs anywhere in the text (case-insensitively, and with any
\* run of whitespace between its words), wherever in the document it occurs;
\* the value is always a member of the vocabulary.
C15_FirstInListOrder ==
    FieldsParsed =>
        LET type == parsed_data.enforcement_action_type
            found == {n \in DOMAIN Vocabulary : Occurs(Vocabulary[n], text_content)}
        IN  /\ type = FirstOf(found)
            /\ type # "" => \E n \in DOMAIN Vocabulary : type = Vocabulary[n]

\* a notice that names Suspension first and, after it, Cease & Desist in
\* capitals with a tab in it was parsed: the type is Cease & Desist, the
\* earlier of the two in the list
C15_Witness ==
    /\ FieldsParsed
    /\ text_content = "Suspension is lifted.\nCEASE  &\tDESIST is ordered."
    /\ parsed_data.enforcement_action_type = "Cease & Desist"

\* token is the first whitespace-separated token of s
IsFirstToken(token, s) ==
    /\ token # ""
    /\ \A i \in 1..Len(token) : Ch(token, i) \notin WS
    /\ \/ Strip(s) = token
       \/ /\ Len(Strip(s)) > Len(token)
          /\ SubSeq(Strip(s), 1, Len(token)) = token
          /\ Ch(Strip(s), Len(token) + 1) \in WS

\* C16: after field extraction administrator_first_name is non-empty: either
\* some name pattern matched and the first name is the first
\* whitespace-separated token of the matched full name, or every pattern
\* missed and the first name is one of the 10 names of the pool, with
\* administrator_name equal to '<first name> [Administrator]'.
C16_FirstNameNonEmpty ==
    FieldsParsed =>
        LET first_name == parsed_data.administrator_first_name
            full_name == parsed_data.administrator_name
            matched == MatchedFullName(text_content)
        IN  /\ first_name # ""
            /\ matched # "" => /\ full_name = Strip(matched)
                               /\ IsFirstToken(first_name, full_name)
            /\ matched = "" => /\ first_name \in DefaultNames
                               /\ Cardinality(DefaultNames) = 10
                               /\ full_name = first_name \o " [Administrator]"

\* a notice that names no administrator was parsed and a name was drawn
C16_Witness ==
    /\ FieldsParsed
    /\ MatchedFullName(text_content) = ""
    /\ parsed_data.administrator_first_name = "Patricia"
    /\ parsed_data.administrator_name = "Patricia [Administrator]"

-----------------------------------------------------------------------------
(* process_entry called twice on the same pair, the second call later.       *)

\* how much later the second call is made, in ticks: at once, a tick later,
\* and one, two and eight days later
Delays == {0, 1} \cup {k * TicksPerDay : k \in {1, 2, 8}}

\* the pdf_data of the repeated calls
RepeatPdfDatas ==
    {PyDict([facility_name |-> n, enforcement_action_type |-> a,
             penalty_amount |-> p, key_violations |-> v,
             facility_license_number |-> "NJ-123"]) :
        n \in {"", "Acme"}, a \in {"", "Suspension"}, p \in {"", "50,000"},
        v \in {<<>>, [i \in 1..3 |-> Violation(i)]}}
    \cup {PyDict(EmptyDict), PyNone}

\* process_entry is called again on the same web_entry and pdf_data
CallProcessEntryAgain ==
    /\ pc = "processed"
    /\ \E d \in Delays : now' = now + d
    /\ first_result' = result
    /\ result' = ProcessEntry(web_entry, pdf_data, now')
    /\ pc' = "repeated"
    /\ UNCHANGED <<web_entry, pdf_data, parsed_data>>
    /\ UNCHANGED pdfVars
    /\ UNCHANGED <<scrapeVars, loopVars, restVars>>

InitRepeat ==
    /\ pc = "process_entry"
    /\ PdfIdle
    /\ text_content = "" /\ parsed_data = EmptyDict
    /\ web_entry \in WebEntries
    /\ pdf_data \in RepeatPdfDatas
    /\ now \in Clocks
    /\ result = NotCalled
    /\ RunIdle

NextRepeat == CallProcessEntry \/ CallProcessEntryAgain

SpecRepeat == InitRepeat /\ [][NextRepeat]_vars

\* both calls returned a record
BothReturned ==
    pc = "repeated" /\ first_result.kind = "return" /\ result.kind = "return"

\* a record without its timestamp
NoTimestamp(r) == [r EXCEPT !.scraped_at = 0]

\* a record without its timestamp, its id and its priority score
NoClockFields(r) ==
    [r EXCEPT !.scraped_at = 0, !.id = "",
              !.structured_data =
                  IF "priority_score" \in DOMAIN @
                  THEN [@ EXCEPT !.priority_score = 0] ELSE @]

\* whole days from the entry's date to the call that returned record r
DaysAfterDate(r) == (r.scraped_at - web_entry.date.t) \div TicksPerDay

\* C11: process_entry is deterministic up to the timestamp: two calls on the
\* same (web_entry, pdf_data) pair, made at any two times, return records that
\* are identical in every field (id, structured_data with severity_level and
\* priority_score, validation) except scraped_at.
C11_SameButTimestamp ==
    BothReturned => NoTimestamp(first_result.record) = NoTimestamp(result.record)

\* C11 as amended: the two calls end the same way (both return, or both raise
\* the same exception), and two returned records are identical in every field
\* except scraped_at, the id when web_entry has no 'date' key (the id then
\* carries the day of the call), and priority_score, which is the same only
\* when both calls are made the same number of whole days after the entry's
\* date or web_entry has no 'date'.
C11_SameButClockFields ==
    pc = "repeated" =>
        /\ first_result.kind = result.kind
        /\ first_result.exc = result.exc
        /\ BothReturned =>
              LET first == first_result.record
                  second == result.record
                  dated == "date" \in DOMAIN web_entry
                  scored == "priority_score" \in DOMAIN second.structured_data
                  same_day == DayOf(first.scraped_at) = DayOf(second.scraped_at)
                  same_age == DaysAfterDate(first) = DaysAfterDate(second)
              IN  /\ NoClockFields(first) = NoClockFields(second)
                  /\ (dated \/ same_day) => first.id = second.id
                  /\ (scored /\ (~dated \/ same_age)) =>
                         first.structured_data.priority_score
                             = second.structured_data.priority_score

\* a second call days later returned a record with another priority score
C11_Witness ==
    /\ BothReturned
    /\ first_result.record.scraped_at # result.record.scraped_at
    /\ "priority_score" \in DOMAIN result.record.structured_data
    /\ first_result.record.structured_data.priority_score
           # result.record.structured_data.priority_score

-----------------------------------------------------------------------------
(* The scraper (src/web_scraper.py): the monitored page, the cursor file     *)
(* last_check.txt and get_new_entries.                                       *)

\* most rows the modelled page lists
MaxSite == 2

\* how many ticks the clock advances
MaxTicks == 2

\* most get_new_entries calls of a behaviour
MaxChecks == 2

\* datetime(2025, 9, 15), as a calendar day counted from 2025-09-01
CutoffDay == 14

\* self.base_url
BaseUrl == "https://www.nj.gov/health/healthfacilities/surveys-insp/enforcement_actions.shtml"

\* s.startswith(prefix)
StartsWith(s, prefix) ==
    Len(s) >= Len(prefix) /\ SubSeq(s, 1, Len(prefix)) = prefix

\* urljoin(self.base_url, href) for an href with a path only
UrlJoin(href) ==
    IF Ch(href, 1) = "/" THEN "https://www.nj.gov" \o href
    ELSE "https://www.nj.gov/health/healthfacilities/surveys-insp/" \o href

\* a table row: the date cell, the link's text and href, the action cell
Row(date_str, name, action, href) ==
    [date_str |-> date_str, facility_name |-> name,
     enforcement_action |-> action, href |-> href]

\* the date cell of a row dated calendar day d
PageDate(d) ==
    TwoDigits(MonthOfDay(d)) \o "/" \o TwoDigits(DayOfMonth(d)) \o "/2025"

\* days the modelled rows are dated: around the cutoff, and the clock's day
SiteDays == {CutoffDay - 1, CutoffDay, StartDay}

\* the rows the department may publish: dated before, on and after the
\* cutoff, dated after the clock's day and without an href, and with a date
\* cell that is no date
SiteRows ==
    {Row(PageDate(d), "Acme Care", "Curtailment", "docs/a.pdf") : d \in SiteDays}
    \cup {Row(PageDate(StartDay + 1), "Cedar Home",
              "Notice of Assessment of Penalties", ""),
          Row("TBD", "Birch Manor", "Suspension", "https://nj.gov/b.pdf")}

\* datetime.strptime(date_str, '%m/%d/%Y'): Ok(ticks), or ValueError
ParseRowDate(date_str) ==
    LET iso == StrptimeMDY(date_str)
    IN  IF ~iso.ok THEN Raise(iso.exc)
        ELSE LET mm == IntOf(SubSeq(iso.val, 6, 7))
                 dd == IntOf(SubSeq(iso.val, 9, 10))
                 first == IF mm = 9 THEN 0 ELSE IF mm = 10 THEN 30 ELSE 61
             IN  Ok((first + dd - 1) * TicksPerDay)

\* the entry parse_entries builds from a row whose date parses
EntryOfRow(row, clock) ==
    [date |-> DateTime(ParseRowDate(row.date_str).val),
     facility_name |-> row.facility_name,
     enforcement_action |-> row.enforcement_action,
     pdf_url |-> IF row.href # "" /\ ~StartsWith(row.href, "http")
                 THEN UrlJoin(row.href) ELSE row.href,
     scraped_at |-> DateTime(clock)]

\* parse_entries: a row whose date does not parse is skipped
ParseEntries(rows, clock) ==
    LET dated == SelectSeq(rows, LAMBDA r : ParseRowDate(r.date_str).ok)
    IN  [i \in 1..Len(dated) |-> EntryOfRow(dated[i], clock)]

\* get_last_check_date: the file's datetime, or the cutoff when the file is
\* absent or reading it raises
GetLastCheckDate(file, readable) ==
    IF file.type = "datetime" /\ readable THEN file.t
    ELSE CutoffDay * TicksPerDay

\* the filter of get_new_entries
FilterNew(all_entries, last_check) ==
    SelectSeq(all_entries,
              LAMBDA entry : /\ entry.date.t >= CutoffDay * TicksPerDay
                             /\ entry.date.t > last_check)

\* a list get_new_entries returned
Fetched(entries) == [kind |-> "return", entries |-> entries, exc |-> ""]

\* get_new_entries re-raised the exception of get_page_content
FetchRaised == [kind |-> "raise", entries |-> <<>>, exc |-> "RequestException"]

\* get_new_entries when get_page_content raises: nothing is read or saved
GetNewEntriesRaises ==
    /\ new_entries' = FetchRaised
    /\ UNCHANGED <<site, last_check_file, returned, checked_site>>

\* get_new_entries when the page is fetched; save_last_check_date swallows
\* the exception of a failed write
GetNewEntriesReturns ==
    \E readable, saved \in BOOLEAN :
        LET all_entries == ParseEntries(site, now)
            last_check == GetLastCheckDate(last_check_file, readable)
            fresh == FilterNew(all_entries, last_check)
        IN  /\ new_entries' = Fetched(fresh)
            /\ last_check_file' = IF saved THEN DateTime(now) ELSE last_check_file
            /\ returned' = Append(returned, fresh)
            /\ checked_site' = site
            /\ UNCHANGED site
-----------------------------------------------------------------------------
(* A pipeline run: run_daily_check (src/main.py) and run_check               *)
(* (src/cloud_main.py).                                                      *)

\* a value the run returned
RunReturned(v) == [kind |-> "return", value |-> v, exc |-> ""]

\* the exception the run raised
RunRaised(e) == [kind |-> "raise", value |-> PyNone, exc |-> e]

\* the text of a downloaded notice
RunDocText ==
    "NOTICE OF ASSESSMENT OF PENALTIES\nAcme Care Center\n"
    \o "A penalty of $1,234 is assessed.\n1. Failure to maintain the required staffing levels"
    \o "\n\nJane Roe, Administrator"

\* the texts the extraction layers hand to parse_pdf's last step
RunTexts == {"", RunDocText}

\* `break`: the loop is left at the entry that raised
Break(i, n) == n + 1

\* `continue` of the per-entry handler: on to the next entry of the list
Continue(i, n) == i + 1

\* the entry's processing raised e: it is logged, and the loop goes on
SkipEntry(entry, e) ==
    /\ skipped' = Append(skipped, [facility_name |-> entry.facility_name, error |-> e])
    /\ idx' = Continue(idx, Len(new_entries.entries))
    /\ UNCHANGED <<processed_entries, store_calls, table>>

\* _prepare_db_data: the row of a record; the other columns are copied from
\* structured_data the way enforcement_action_type is
PrepareDbData(processed_data) ==
    LET structured == Get(processed_data, "structured_data", EmptyDict)
    IN  [id |-> processed_data.id,
         scraped_at |-> processed_data.scraped_at,
         facility_name |-> Get(structured, "facility_name", ""),
         enforcement_action_type |-> Get(structured, "enforcement_action_type", ""),
         pdf_url |-> Get(structured, "pdf_url", ""),
         raw_web_data |-> processed_data.web_data]

\* store_entry: table('enforcement_actions').insert(db_data).execute().
\* When the insert gives data back the row is added and True is returned;
\* when it raises, or gives nothing back, no row changes and False is
\* returned.
StoreEntry(rows, processed_data, stored) ==
    IF stored THEN Append(rows, PrepareDbData(processed_data)) ELSE rows

\* KeepEntry keeping the record only when store_entry reported success
KeepEntryIfStored(record, stored) ==
    /\ store_calls' = IF database_manager
                      THEN Append(store_calls, [id |-> record.id, ok |-> stored])
                      ELSE store_calls
    /\ table' = IF database_manager THEN StoreEntry(table, record, stored) ELSE table
    /\ processed_entries' = IF stored THEN Append(processed_entries, record)
                            ELSE processed_entries
    /\ idx' = idx + 1
    /\ UNCHANGED skipped

\* the entry's record is stored (when a database is configured) and kept
KeepEntry(record, stored) ==
    /\ store_calls' = IF database_manager
                      THEN Append(store_calls, [id |-> record.id, ok |-> stored])
                      ELSE store_calls
    /\ table' = IF database_manager THEN StoreEntry(table, record, stored) ELSE table
    /\ processed_entries' = Append(processed_entries, record)
    /\ idx' = idx + 1
    /\ UNCHANGED skipped

\* one iteration of the loop over new_entries: download, parse_pdf,
\* process_entry, store_entry.  download_pdf raises on an empty URL and on a
\* failed request; parse_pdf and store_entry catch their own exceptions.
ProcessNextEntry ==
    /\ pc = "loop"
    /\ idx <= Len(new_entries.entries)
    /\ LET entry == new_entries.entries[idx]
       IN  /\ web_entry' = entry
           /\ \/ /\ entry.pdf_url = ""
                 /\ SkipEntry(entry, IF entrypoint = "run_daily_check"
                                     THEN "No PDF URL provided" ELSE "MissingSchema")
                 /\ UNCHANGED <<text_content, parsed_data, pdf_data, result>>
              \/ /\ entry.pdf_url # ""
                 /\ SkipEntry(entry, "RequestException")
                 /\ UNCHANGED <<text_content, parsed_data, pdf_data, result>>
              \/ /\ entry.pdf_url # ""
                 /\ \E text \in RunTexts, stored \in BOOLEAN :
                     \E parsed \in ParsePdfResults(text) :
                       LET outcome == ProcessEntry(entry, PyDict(parsed), now)
                       IN  /\ text_content' = text
                           /\ parsed_data' = parsed
                           /\ pdf_data' = PyDict(parsed)
                           /\ result' = outcome
                           /\ IF outcome.kind = "raise"
                              THEN SkipEntry(entry, outcome.exc)
                              ELSE KeepEntry(outcome.record, stored)
    /\ pc' = IF idx' <= Len(new_entries.entries) THEN "loop"
             ELSE IF processed_entries' # <<>> THEN "emails" ELSE "finish"
    /\ UNCHANGED <<num_pages, page, x_text, a_text, a_threw, b_threw, attempts,
                   direct_text, ocr_calls, ocr_acc, ocr_threw>>
    /\ UNCHANGED <<now, entrypoint, database_manager, email_calls, run_result>>
    /\ UNCHANGED <<repeatVars, scrapeVars, fieldVars, threadVars>>

\* what the run gives back when get_new_entries raised: run_daily_check logs
\* and re-raises, run_check returns an error status
RunFailed(e) ==
    IF entrypoint = "run_daily_check" THEN RunRaised(e)
    ELSE RunReturned(PyDict([status |-> "error", error |-> e, timestamp |-> now]))

\* what the run returns when there is no new entry
RunEmpty ==
    IF entrypoint = "run_daily_check" THEN RunReturned(PyNone)
    ELSE RunReturned(PyDict([status |-> "success", new_entries |-> 0, emails_sent |-> 0]))

\* the number of calls of email_calls that returned True
EmailsSent == Len(SelectSeq(email_calls, LAMBDA c : c.outcome = "sent"))

\* what the run returns after its loops
RunDone ==
    IF entrypoint = "run_daily_check" THEN RunReturned(PyNone)
    ELSE RunReturned(PyDict([status |-> "success",
                             new_entries |-> Len(new_entries.entries),
                             processed_entries |-> Len(processed_entries),
                             emails_sent |-> EmailsSent,
                             timestamp |-> now]))

\* the run starts: get_new_entries, and the early return on an empty list
StartRun ==
    /\ pc = "idle"
    /\ run_result = NotCalled
    /\ \/ GetNewEntriesRaises
       \/ GetNewEntriesReturns
    /\ idx' = 1
    /\ run_result' = IF new_entries'.kind = "raise" THEN RunFailed(new_entries'.exc)
                     ELSE IF new_entries'.entries = <<>> THEN RunEmpty
                     ELSE run_result
    /\ pc' = IF new_entries'.kind = "return" /\ new_entries'.entries # <<>>
             THEN "loop" ELSE "run_end"
    /\ UNCHANGED <<parsed_data, entrypoint, database_manager, processed_entries,
                   skipped, store_calls, email_calls>>
    /\ UNCHANGED pdfVars
    /\ UNCHANGED procVars
    /\ UNCHANGED <<repeatVars, restVars>>

\* one iteration of the loop over processed_entries: send_email_to_facility
\* returns True or False, or raises into the handler that logs the error
SendNextEmail ==
    /\ pc = "emails"
    /\ Len(email_calls) < Len(processed_entries)
    /\ \E outcome \in {"sent", "failed", "raised"} :
          email_calls' = Append(email_calls,
                                [id |-> processed_entries[Len(email_calls) + 1].id,
                                 outcome |-> outcome])
    /\ pc' = IF Len(email_calls') < Len(processed_entries) THEN "emails" ELSE "finish"
    /\ UNCHANGED <<parsed_data, entrypoint, database_manager, idx, processed_entries,
                   skipped, store_calls, run_result>>
    /\ UNCHANGED pdfVars
    /\ UNCHANGED procVars
    /\ UNCHANGED <<repeatVars, scrapeVars, restVars>>

\* the run returns
FinishRun ==
    /\ pc = "finish"
    /\ run_result' = RunDone
    /\ pc' = "run_end"
    /\ UNCHANGED <<parsed_data, entrypoint, database_manager, idx, processed_entries,
                   skipped, store_calls, email_calls>>
    /\ UNCHANGED pdfVars
    /\ UNCHANGED procVars
    /\ UNCHANGED <<repeatVars, scrapeVars, restVars>>

\* a row dated the clock's day, of a third facility
BirchRow == Row(PageDate(StartDay), "Birch Manor", "Suspension", "https://nj.gov/b.pdf")

\* the pages a run starts on
RunSites ==
    {<<>>,
     <<Row(PageDate(StartDay), "Acme Care", "Curtailment", "docs/a.pdf"),
       Row(PageDate(StartDay + 1), "Cedar Home", "Notice of Assessment of Penalties", ""),
       BirchRow>>,
     <<BirchRow,
       Row("TBD", "Birch Manor", "Suspension", "https://nj.gov/b.pdf"),
       Row(PageDate(StartDay - 1), "Acme Care", "Curtailment", "docs/a.pdf"),
       Row(PageDate(StartDay), "", "", "/docs/c.pdf")>>}

\* a run is about to start: run_daily_check is built with a DatabaseManager,
\* run_check with one or none
InitRun ==
    /\ pc = "idle"
    /\ PdfIdle
    /\ text_content = "" /\ parsed_data = EmptyDict
    /\ ProcIdle
    /\ RepeatIdle
    /\ RestIdle
    /\ site \in RunSites
    /\ last_check_file \in {PyNone, DateTime((StartDay - 1) * TicksPerDay)}
    /\ new_entries = NotCalled /\ returned = <<>> /\ checked_site = <<>>
    /\ entrypoint \in {"run_daily_check", "run_check"}
    /\ database_manager \in (IF entrypoint = "run_daily_check" THEN {TRUE} ELSE BOOLEAN)
    /\ idx = 0 /\ processed_entries = <<>> /\ skipped = <<>> /\ store_calls = <<>>
    /\ email_calls = <<>> /\ run_result = NotCalled

NextRun == StartRun \/ ProcessNextEntry \/ SendNextEmail \/ FinishRun

SpecRun == InitRun /\ [][NextRun]_vars

\* the department publishes a row, at the top of the table
Publish ==
    /\ pc = "idle"
    /\ Len(site) < MaxSite
    /\ \E row \in SiteRows :
          /\ \A i \in DOMAIN site : site[i] # row
          /\ site' = <<row>> \o site
    /\ UNCHANGED <<pc, parsed_data, last_check_file, new_entries, returned, checked_site>>
    /\ UNCHANGED pdfVars
    /\ UNCHANGED procVars
    /\ UNCHANGED <<repeatVars, loopVars, restVars>>

\* time passes
Tick ==
    /\ pc = "idle"
    /\ now < StartDay * TicksPerDay + MaxTicks
    /\ now' = now + 1
    /\ UNCHANGED <<pc, parsed_data, web_entry, pdf_data, result>>
    /\ UNCHANGED pdfVars
    /\ UNCHANGED runVars

\* get_new_entries is called
Check ==
    /\ pc = "idle"
    /\ Len(returned) < MaxChecks
    /\ \/ GetNewEntriesRaises
       \/ GetNewEntriesReturns
    /\ UNCHANGED <<pc, parsed_data>>
    /\ UNCHANGED pdfVars
    /\ UNCHANGED procVars
    /\ UNCHANGED <<repeatVars, loopVars, restVars>>

\* the page is empty, no check was ever made
InitScrape ==
    /\ pc = "idle"
    /\ PdfIdle
    /\ text_content = "" /\ parsed_data = EmptyDict
    /\ ProcIdle
    /\ RunIdle

NextScrape == Publish \/ Tick \/ Check

SpecScrape == InitScrape /\ [][NextScrape]_vars

\* row is listed in some list get_new_entries returned
WasReturned(row) ==
    \E k \in DOMAIN returned : \E i \in DOMAIN returned[k] :
        /\ returned[k][i].date = DateTime(ParseRowDate(row.date_str).val)
        /\ returned[k][i].facility_name = row.facility_name
        /\ returned[k][i].enforcement_action = row.enforcement_action

\* row carries a date on or after the 2025-09-15 cutoff
OnOrAfterCutoff(row) ==
    /\ ParseRowDate(row.date_str).ok
    /\ ParseRowDate(row.date_str).val >= CutoffDay * TicksPerDay

\* C19: every entry that appears on the monitored page with a date on or
\* after the 2025-09-15 cutoff is returned as new by some get_new_entries call
\* made after it appears, whatever the interleaving of publications and
\* checks: once a call has fetched the page with the entry on it, the entry
\* is in a list some call returned.
C19_EveryEntryDetected ==
    \A i \in DOMAIN checked_site :
        OnOrAfterCutoff(checked_site[i]) => WasReturned(checked_site[i])

-----------------------------------------------------------------------------
(* Properties of a pipeline run, checked under SpecRun.                     *)

\* the loop over new_entries has passed its last entry
LoopDone ==
    \/ pc \in {"emails", "finish"}
    \/ pc = "run_end" /\ new_entries.kind = "return"

\* every entry, in order, is the entry of the next kept record or of the next
\* logged failure, and no record or failure is left over
RECURSIVE Accounted(_, _, _)
Accounted(entries, records, failures) ==
    IF entries = <<>> THEN records = <<>> /\ failures = <<>>
    ELSE \/ /\ records # <<>>
            /\ Head(records).web_data = Head(entries)
            /\ Accounted(Tail(entries), Tail(records), failures)
         \/ /\ failures # <<>>
            /\ Head(failures).facility_name = Head(entries).facility_name
            /\ Head(failures).error # ""
            /\ Accounted(Tail(entries), records, Tail(failures))

EmptyTextProcessed ==
    /\ pc \in {"loop", "emails", "finish", "run_end"}
    /\ result.kind = "return"
    /\ result.record.web_data = web_entry
    /\ text_content = ""

\* the fields of a record that only the PDF supplies
PdfOnlyBlank(structured) ==
    /\ structured.penalty_amount = ""
    /\ structured.facility_address = ""
    /\ structured.facility_license_number = ""
    /\ structured.violation_summary = ""
    /\ structured.key_violations = <<>>
    /\ structured.effective_date = ""
    /\ structured.contact_information = ""

\* C17: when every extraction method (A, B and OCR) yields empty text for a
\* document, the pipeline does not crash and the record handed to
\* persistence/notification for that entry has blank facility name, blank
\* action type and blank penalty fields.
C17_BlankRecord ==
    EmptyTextProcessed =>
        /\ run_result.kind # "raise"
        /\ processed_entries[Len(processed_entries)] = result.record
        /\ result.record.structured_data.facility_name = ""
        /\ result.record.structured_data.enforcement_action_type = ""
        /\ result.record.structured_data.penalty_amount = ""

\* C17 as amended: when every extraction method yields empty text, the
\* pipeline does not crash and the record handed to persistence/notification
\* carries the web entry's facility name and the web entry's enforcement
\* action as its action type; its penalty and its other PDF-only fields are
\* blank, and its pdf_data is the empty dict.
C17_WebFieldsKept ==
    EmptyTextProcessed =>
        /\ run_result.kind # "raise"
        /\ processed_entries[Len(processed_entries)] = result.record
        /\ database_manager =>
              store_calls[Len(store_calls)].id = result.record.id
        /\ result.record.pdf_data = PyDict(EmptyDict)
        /\ result.record.structured_data.facility_name = web_entry.facility_name
        /\ result.record.structured_data.enforcement_action_type
               = web_entry.enforcement_action
        /\ PdfOnlyBlank(result.record.structured_data)

\* a named entry's document yielded no text, and its record was kept
C17_Witness ==
    /\ EmptyTextProcessed
    /\ pc = "run_end"
    /\ web_entry.facility_name # ""
    /\ web_entry.enforcement_action # ""
    /\ result.record.structured_data.facility_name # ""

-----------------------------------------------------------------------------
(* The text parse_pdf parses after OCR, checked under Spec.                  *)

\* _extract_text_with_ocr was invoked and has returned
OcrReturned == ocr_calls > 0 /\ pc \in {"check_empty", "done"}

\* C28: whenever parse_pdf invokes OCR, the text passed to field extraction
\* is the OCR output alone: the direct-extraction text that was judged too
\* short is discarded, so if OCR yields empty text parse_pdf returns an empty
\* result even though direct extraction had produced some non-empty text.
C28_OcrTextAlone ==
    OcrReturned =>
        /\ text_content = IF ocr_threw \/ NonWsCount(ocr_acc) = 0 THEN "" ELSE ocr_acc
        /\ (pc = "done" /\ text_content = "") => parsed_data = EmptyDict

\* OCR read nothing from a document whose direct text was short but not
\* empty, and parse_pdf returned {}
C28_Witness ==
    /\ pc = "done" /\ ocr_calls > 0 /\ ~ocr_threw
    /\ NonWsCount(direct_text) > 0
    /\ text_content = "" /\ parsed_data = EmptyDict

-----------------------------------------------------------------------------
(* Severity against priority, checked under SpecProcess.                     *)

\* C29: severity and priority are mutually consistent for every record
\* produced on the normal path: severity_level HIGH implies priority_score
\* >= 20, severity_level MEDIUM implies priority_score >= 10, and
\* priority_score never exceeds 95, so the cap at 100 is never the binding
\* term.
C29_SeverityMatchesPriority ==
    NormalPath =>
        LET structured == result.record.structured_data
        IN  /\ structured.severity_level = "HIGH" => structured.priority_score >= 20
            /\ structured.severity_level = "MEDIUM" => structured.priority_score >= 10
            /\ structured.priority_score <= 95

\* a HIGH record whose only scored component is a penalty of 10,000: its
\* priority is exactly 20
C29_Witness ==
    /\ pc = "processed" /\ NormalPath
    /\ result.record.structured_data.severity_level = "HIGH"
    /\ result.record.structured_data.priority_score = 20
    /\ PenaltyNumber = 10000

-----------------------------------------------------------------------------
(* The exception handler of _parse_text_content: an extractor of the try     *)
(* block raises, the handler logs, and parsed_data is returned as it stands. *)

\* the extractions of the try block, in the order the code makes them
Extractors ==
    <<"facility_name", "facility_address", "facility_license_number",
      "penalty_amount", "enforcement_action_type", "violation_details",
      "key_violations", "effective_date", "contact_information",
      "administrator_info">>

\* position of an extraction in the try block
ExtractorIndex(field) == CHOOSE n \in DOMAIN Extractors : Extractors[n] = field

\* parsed_data when the n-th extraction raises: the fields assigned before
\* it hold what was extracted, the others what the dict was built with
ParsedBefore(text, n) ==
    [raw_text |-> text,
     penalty_amount |-> IF n > ExtractorIndex("penalty_amount")
                        THEN PenaltyFrom(1, text) ELSE "",
     enforcement_action_type |-> IF n > ExtractorIndex("enforcement_action_type")
                                 THEN EnforcementActionType(text) ELSE "",
     key_violations |-> IF n > ExtractorIndex("key_violations")
                        THEN ExtractKeyViolations(text) ELSE <<>>]

\* _parse_text_content when an extraction raises: `except Exception` logs
\* the error and `return parsed_data` follows
ParseFieldsRaises ==
    /\ pc = "parse_text"
    /\ \E n \in DOMAIN Extractors :
          /\ parse_error' = Extractors[n]
          /\ parsed_data' = ParsedBefore(text_content, n)
    /\ pc' = "parsed"
    /\ UNCHANGED pdfVars
    /\ UNCHANGED procVars
    /\ UNCHANGED <<repeatVars, scrapeVars, loopVars, dbVars, threadVars>>

\* _parse_text_content is called on a text of a notice
InitFieldsRaise ==
    /\ pc = "parse_text"
    /\ PdfIdle
    /\ text_content \in ActionTexts \cup AdminTexts \cup {RunDocText}
    /\ parsed_data = EmptyDict
    /\ ProcIdle
    /\ RunIdle

NextFieldsRaise == ParseFields \/ ParseFieldsRaises

SpecFieldsRaise == InitFieldsRaise /\ [][NextFieldsRaise]_vars

\* _parse_text_content returned from its exception handler
ParseRecovered == pc = "parsed" /\ parse_error # ""

\* C21: if any field extractor throws during _parse_text_content, the
\* exception is recovered and the result is an entirely empty ParsedFields:
\* no field extracted before the failure keeps a non-empty value.
C21_EmptyAfterException ==
    ParseRecovered =>
        /\ parsed_data.penalty_amount = ""
        /\ parsed_data.enforcement_action_type = ""
        /\ parsed_data.key_violations = <<>>

-----------------------------------------------------------------------------
(* The emails of a run, checked under SpecRun.                               *)

\* run_daily_check is past its email loop
EmailsDone ==
    /\ entrypoint = "run_daily_check"
    /\ new_entries.kind = "return"
    /\ pc \in {"finish", "run_end"}

\* C30: in run_daily_check an email is attempted, exactly once per run, for
\* each entry whose download, parse and process_entry steps completed without
\* raising, independently of whether store_entry reported success: a failed
\* store does not prevent the entry from being emailed, and a failure sending
\* one email does not prevent the emails for the remaining entries.
C30_EmailPerProcessedEntry ==
    EmailsDone =>
        /\ Accounted(new_entries.entries, processed_entries, skipped)
        /\ Len(store_calls) = Len(processed_entries)
        /\ Len(email_calls) = Len(processed_entries)
        /\ \A i \in DOMAIN email_calls :
              email_calls[i].id = processed_entries[i].id

\* the first record's store failed and its email raised, and the second
\* record was emailed all the same
C30_Witness ==
    /\ EmailsDone /\ pc = "run_end"
    /\ Len(processed_entries) = 2
    /\ ~store_calls[1].ok
    /\ Len(email_calls) = 2
    /\ email_calls[1].outcome = "raised"
    /\ email_calls[2].outcome = "sent"

-----------------------------------------------------------------------------
(* Two filings of one facility on one day: process_entry and store_entry     *)
(* (src/database_manager.py) on each.                                        *)

\* the web entries of the filings: two facilities, two days, two actions,
\* each with its own notice
FilingEntries ==
    {[date |-> DateTime(d * TicksPerDay), facility_name |-> n,
      enforcement_action |-> a, pdf_url |-> "https://nj.gov/" \o u,
      scraped_at |-> DateTime(StartDay * TicksPerDay)] :
        d \in {StartDay - 1, StartDay}, n \in {"Acme Care", "St. Mary/Rehab Center"},
        a \in {"Curtailment", "Suspension"}, u \in {"a.pdf", "b.pdf"}}

\* what parse_pdf gave for a filing's notice
FilingPdfDatas == {PyDict(EmptyDict), PyDict(PdfComplete)}

\* process_entry on the filing, and store_entry on the record it returned
ProcessAndStore ==
    /\ result' = ProcessEntry(web_entry', pdf_data', now')
    /\ \E stored \in BOOLEAN :
          IF result'.kind = "return"
          THEN /\ store_calls' = Append(store_calls,
                                        [id |-> result'.record.id, ok |-> stored])
               /\ table' = StoreEntry(table, result'.record, stored)
          ELSE UNCHANGED <<store_calls, table>>

\* the first filing is processed and stored
StoreFirst ==
    /\ pc = "filing"
    /\ UNCHANGED <<web_entry, pdf_data, now>>
    /\ ProcessAndStore
    /\ pc' = "filed"
    /\ UNCHANGED <<parsed_data, first_result, entrypoint, database_manager, idx,
                   processed_entries, skipped, email_calls, run_result>>
    /\ UNCHANGED pdfVars
    /\ UNCHANGED <<scrapeVars, fieldVars, threadVars>>

\* a second filing is processed and stored, later
StoreSecond ==
    /\ pc = "filed"
    /\ web_entry' \in FilingEntries
    /\ pdf_data' \in FilingPdfDatas
    /\ \E d \in Delays : now' = now + d
    /\ first_result' = result
    /\ ProcessAndStore
    /\ pc' = "filed_twice"
    /\ UNCHANGED <<parsed_data, entrypoint, database_manager, idx,
                   processed_entries, skipped, email_calls, run_result>>
    /\ UNCHANGED pdfVars
    /\ UNCHANGED <<scrapeVars, fieldVars, threadVars>>

\* a filing is about to be processed; the table is empty
InitStore ==
    /\ pc = "filing"
    /\ PdfIdle
    /\ text_content = "" /\ parsed_data = EmptyDict
    /\ web_entry \in FilingEntries
    /\ pdf_data \in FilingPdfDatas
    /\ now = StartDay * TicksPerDay
    /\ result = NotCalled
    /\ database_manager = TRUE
    /\ RepeatIdle /\ ScrapeIdle /\ RestIdle
    /\ entrypoint = "" /\ idx = 0 /\ processed_entries = <<>> /\ skipped = <<>>
    /\ store_calls = <<>> /\ email_calls = <<>> /\ run_result = NotCalled

NextStore == StoreFirst \/ StoreSecond

SpecStore == InitStore /\ [][NextStore]_vars

\* both filings were processed into records, and they are filings of the
\* same facility name and entry date
SameFacilityAndDate ==
    /\ pc = "filed_twice"
    /\ first_result.kind = "return" /\ result.kind = "return"
    /\ first_result.record.web_data.facility_name = web_entry.facility_name
    /\ first_result.record.web_data.date = web_entry.date

\* the rows of the table that carry id
RowsOf(id) == SelectSeq(table, LAMBDA row : row.id = id)

\* C22: two records for the same web facility name and entry date receive
\* the same id, and storing the second through store_entry overwrites the
\* first stored record: once store_entry has returned True for both, the
\* table holds under that id the row of the second record alone.
C22_SecondOverwritesFirst ==
    SameFacilityAndDate =>
        /\ first_result.record.id = result.record.id
        /\ (store_calls[1].ok /\ store_calls[2].ok) =>
               RowsOf(result.record.id) = <<PrepareDbData(result.record)>>

-----------------------------------------------------------------------------
(* Entries returned by successive get_new_entries calls, checked under       *)
(* SpecScrape.                                                               *)

\* two returned entries are the entry of one row of the page
SameEntry(a, b) ==
    /\ a.date = b.date
    /\ a.facility_name = b.facility_name
    /\ a.enforcement_action = b.enforcement_action
    /\ a.pdf_url = b.pdf_url

\* C24: across any sequence of successful get_new_entries calls made one
\* after another, no entry is returned by more than one call: once an entry
\* has been returned as new, every later call excludes it.
C24_ReturnedOnce ==
    \A k, l \in DOMAIN returned :
        k < l => \A i \in DOMAIN returned[k], j \in DOMAIN returned[l] :
                     ~SameEntry(returned[k][i], returned[l][j])

-----------------------------------------------------------------------------
(* A run, and the get_new_entries calls made after it has ended.             *)

\* time passes after the run
Later ==
    /\ pc = "run_end"
    /\ now < StartDay * TicksPerDay + MaxTicks
    /\ now' = now + 1
    /\ UNCHANGED <<pc, parsed_data, web_entry, pdf_data, result>>
    /\ UNCHANGED pdfVars
    /\ UNCHANGED runVars

\* get_new_entries is called again, by the next run
Recheck ==
    /\ pc = "run_end"
    /\ Len(returned) < MaxChecks
    /\ \/ GetNewEntriesRaises
       \/ GetNewEntriesReturns
    /\ UNCHANGED <<pc, parsed_data>>
    /\ UNCHANGED pdfVars
    /\ UNCHANGED procVars
    /\ UNCHANGED <<repeatVars, loopVars, restVars>>

\* run_daily_check is about to start on a page of three rows, the second
\* of which has no link
InitRerun ==
    /\ InitRun
    /\ entrypoint = "run_daily_check"
    /\ Len(site) = 3

NextRerun == NextRun \/ Later \/ Recheck

SpecRerun == InitRerun /\ [][NextRerun]_vars

\* the entries of the run's list whose download, parsing, reconciliation or
\* storage failed: the loop logged them and kept no record of them
FailedEntries ==
    IF skipped = <<>> THEN {}
    ELSE {returned[1][i] : i \in
             {i \in DOMAIN returned[1] :
                 \A r \in DOMAIN processed_entries :
                     processed_entries[r].web_data # returned[1][i]}}

\* the values last_check.txt may hold before any call
InitialCursors == {PyNone, DateTime((StartDay - 1) * TicksPerDay)}

\* C25: get_new_entries advances the last-check cursor to the current time
\* before any returned entry is downloaded or processed, and nothing moves it
\* back: an entry (dated no later than now) whose download, parsing,
\* reconciliation or storage fails in a run is not returned again by any
\* later get_new_entries call.  When the page fetch itself raises, the cursor
\* is left unchanged.
C25_FailedNeverRetried ==
    /\ pc = "loop" => last_check_file = DateTime(now)
    /\ \A e \in FailedEntries :
          e.date.t <= e.scraped_at.t =>
              \A l \in 2..Len(returned) : \A j \in DOMAIN returned[l] :
                  ~SameEntry(e, returned[l][j])
    /\ returned = <<>> => last_check_file \in InitialCursors

-----------------------------------------------------------------------------
(* Two requests in flight: POST /check and GET /test (src/cloud_main.py)     *)
(* each call monitor.run_check() on the one monitor of the process, each in  *)
(* its own thread of the server.  The threads share last_check.txt, the      *)
(* table and the mailbox; a step of a thread is what it does between two     *)
(* accesses of the file.  The file is read and written without failure.      *)

\* the requests in flight
Requests == {"/check", "/test"}

\* the locals of a thread that has not called run_check yet
IdleRun == [pc |-> "idle", new_entries |-> <<>>, idx |-> 0, processed_entries |-> <<>>]

\* the pages the requests find
RequestSites == {<<>>, <<BirchRow>>}

\* what a step of a request's thread leaves alone
RequestFrame ==
    /\ pc = "serving"
    /\ UNCHANGED <<pc, parsed_data, site, new_entries, returned, checked_site,
                   entrypoint, database_manager, idx, processed_entries, skipped,
                   store_calls, run_result>>
    /\ UNCHANGED pdfVars
    /\ UNCHANGED procVars
    /\ UNCHANGED <<repeatVars, fieldVars, schedVars>>

\* get_new_entries, up to the filter: the page is fetched and parsed and the
\* cursor is read, or get_page_content raises and run_check returns an error
RequestFetches(r) ==
    /\ RequestFrame
    /\ runs[r].pc = "idle"
    /\ \/ runs' = [runs EXCEPT ![r].pc = "done"]
       \/ runs' = [runs EXCEPT
                     ![r].new_entries =
                         FilterNew(ParseEntries(site, now),
                                   GetLastCheckDate(last_check_file, TRUE)),
                     ![r].pc = "save"]
    /\ UNCHANGED <<last_check_file, table, email_calls>>

\* get_new_entries, from save_last_check_date to its return, and the early
\* return of run_check on an empty list
RequestSaves(r) ==
    /\ RequestFrame
    /\ runs[r].pc = "save"
    /\ last_check_file' = DateTime(now)
    /\ runs' = [runs EXCEPT ![r].idx = 1,
                            ![r].pc = IF runs[r].new_entries = <<>> THEN "done"
                                      ELSE "loop"]
    /\ UNCHANGED <<table, email_calls>>

\* one iteration of run_check's loop over new_entries: requests.get raises
\* and the entry is skipped, or the notice is parsed, reconciled and stored
RequestProcesses(r) ==
    /\ RequestFrame
    /\ runs[r].pc = "loop"
    /\ LET entry == runs[r].new_entries[runs[r].idx]
           last == runs[r].idx = Len(runs[r].new_entries)
       IN  \/ /\ runs' = [runs EXCEPT
                            ![r].idx = Continue(@, Len(runs[r].new_entries)),
                            ![r].pc = IF ~last THEN "loop"
                                      ELSE IF runs[r].processed_entries # <<>>
                                      THEN "emails" ELSE "done"]
              /\ UNCHANGED table
           \/ \E text \in RunTexts, stored \in BOOLEAN :
                \E parsed \in ParsePdfResults(text) :
                  LET outcome == ProcessEntry(entry, PyDict(parsed), now)
                  IN  /\ outcome.kind = "return"
                      /\ runs' = [runs EXCEPT
                                    ![r].processed_entries = Append(@, outcome.record),
                                    ![r].idx = @ + 1,
                                    ![r].pc = IF last THEN "emails" ELSE "loop"]
                      /\ table' = StoreEntry(table, outcome.record, stored)
    /\ UNCHANGED <<last_check_file, email_calls>>

\* one iteration of run_check's loop over processed_entries
RequestSendsEmail(r) ==
    /\ RequestFrame
    /\ runs[r].pc = "emails"
    /\ runs[r].processed_entries # <<>>
    /\ \E outcome \in {"sent", "failed", "raised"} :
          email_calls' = Append(email_calls,
                                [id |-> Head(runs[r].processed_entries).id,
                                 outcome |-> outcome, request |-> r])
    /\ runs' = [runs EXCEPT
                  ![r].processed_entries = Tail(@),
                  ![r].pc = IF Len(runs[r].processed_entries) = 1 THEN "done"
                            ELSE "emails"]
    /\ UNCHANGED <<last_check_file, table>>

\* both requests have arrived, the page is empty or lists an entry dated
\* today, and the last check was yesterday or never
InitRequests ==
    /\ pc = "serving"
    /\ PdfIdle
    /\ text_content = "" /\ parsed_data = EmptyDict
    /\ ProcIdle
    /\ RepeatIdle /\ FieldIdle /\ DbIdle /\ SchedIdle
    /\ site \in RequestSites
    /\ last_check_file \in {PyNone, DateTime((StartDay - 1) * TicksPerDay)}
    /\ new_entries = NotCalled /\ returned = <<>> /\ checked_site = <<>>
    /\ entrypoint = "run_check" /\ database_manager = TRUE
    /\ idx = 0 /\ processed_entries = <<>> /\ skipped = <<>> /\ store_calls = <<>>
    /\ email_calls = <<>> /\ run_result = NotCalled
    /\ runs = [r \in Requests |-> IdleRun]

NextRequests ==
    \E r \in Requests :
        \/ RequestFetches(r) \/ RequestSaves(r)
        \/ RequestProcesses(r) \/ RequestSendsEmail(r)

SpecRequests == InitRequests /\ [][NextRequests]_vars

\* C23: a full pipeline run is an atomic unit with respect to other runs:
\* when two runs are triggered concurrently (HTTP /check, HTTP /test, or the
\* scheduler), they do not interleave on the shared last-check cursor, so no
\* entry is returned as new to both runs and emailed twice.
C23_RunsAtomic ==
    /\ \A i \in DOMAIN runs["/check"].new_entries,
          j \in DOMAIN runs["/test"].new_entries :
          ~SameEntry(runs["/check"].new_entries[i], runs["/test"].new_entries[j])
    /\ \A i, j \in DOMAIN email_calls :
          email_calls[i].request # email_calls[j].request
              => email_calls[i].id # email_calls[j].id

-----------------------------------------------------------------------------
(* The scheduler (src/scheduler.py) and the entry point of src/main.py.     *)
(* The clock counts minutes, the period of the scheduler loop.  A day is    *)
(* shortened to SlotsPerDay minutes, with 09:00 at its first minute and     *)
(* 14:00 at its second.                                                      *)

SlotsPerDay == 4

MaxMinute == 6

MaxCalls == 3

\* the times start_scheduler schedules run_daily_check at
ScheduleTimes == <<"09:00", "14:00">>

\* the minute of the day of a time string
At(time_str) == IF time_str = "09:00" THEN 1 ELSE 2

\* next_run of a job made by every().day.at(time_str) at minute m: today when
\* the time is still ahead, tomorrow otherwise
ScheduleNextRun(time_str, m) ==
    LET day == m \div SlotsPerDay
    IN  IF At(time_str) > m % SlotsPerDay
        THEN day * SlotsPerDay + At(time_str)
        ELSE (day + 1) * SlotsPerDay + At(time_str)

\* schedule_multiple_daily_tasks: one job per time string
ScheduleMultipleDailyTasks(time_strings, m) ==
    [i \in DOMAIN time_strings |->
        [at |-> time_strings[i], next_run |-> ScheduleNextRun(time_strings[i], m)]]

\* the jobs schedule.run_pending runs at minute m, in the order it runs them
DueJobs(js, m) ==
    SelectSeq(SortSeq(js, LAMBDA a, b : a.next_run < b.next_run),
              LAMBDA j : j.next_run <= m)

\* the Thread object of the loop thread created t-th
Thread(t) == [type |-> "Thread", t |-> t]

\* what a step of the scheduler leaves alone
SchedFrame ==
    /\ pc = "scheduler"
    /\ UNCHANGED <<pc, parsed_data, runs>>
    /\ UNCHANGED pdfVars
    /\ UNCHANGED procVars
    /\ UNCHANGED <<repeatVars, scrapeVars, loopVars, fieldVars, dbVars>>

\* the body of TaskScheduler.run
TaskSchedulerRun ==
    /\ calls' = Append(calls, [op |-> "run", was_running |-> running,
                               thread |-> IF running THEN PyNone
                                          ELSE Thread(Len(loop_threads) + 1)])
    /\ IF running
       THEN UNCHANGED <<running, scheduler_thread, loop_threads>>
       ELSE /\ running' = TRUE
            /\ loop_threads' = Append(loop_threads, [pc |-> "while", until |-> 0])
            /\ scheduler_thread' = Thread(Len(loop_threads) + 1)

\* TaskScheduler.run()
Run ==
    /\ SchedFrame
    /\ caller = "ready"
    /\ Len(calls) < MaxCalls
    /\ TaskSchedulerRun
    /\ UNCHANGED <<caller, minute, jobs, task_runs>>

\* TaskScheduler.stop(), up to the join
Stop ==
    /\ SchedFrame
    /\ caller = "ready"
    /\ Len(calls) < MaxCalls
    /\ calls' = Append(calls, [op |-> "stop", was_running |-> running,
                               thread |-> scheduler_thread])
    /\ running' = FALSE
    /\ caller' = IF scheduler_thread # PyNone THEN "join" ELSE "ready"
    /\ UNCHANGED <<scheduler_thread, loop_threads, minute, jobs, task_runs>>

\* scheduler_thread.join(timeout=5) returns: the thread has ended, or the
\* five seconds have passed while it sleeps or runs a due job
JoinReturns ==
    /\ SchedFrame
    /\ caller = "join"
    /\ \/ loop_threads[scheduler_thread.t].pc \in {"ended", "sleep"}
       \/ /\ loop_threads[scheduler_thread.t].pc = "run_pending"
          /\ DueJobs(jobs, minute) # <<>>
    /\ caller' = "ready"
    /\ UNCHANGED <<running, scheduler_thread, loop_threads, calls, minute, jobs,
                   task_runs>>

\* _run_scheduler: the test of the while loop
LoopTests ==
    /\ SchedFrame
    /\ \E t \in DOMAIN loop_threads :
          /\ loop_threads[t].pc = "while"
          /\ loop_threads' = [loop_threads EXCEPT
                                ![t].pc = IF running THEN "run_pending" ELSE "ended"]
    /\ UNCHANGED <<running, scheduler_thread, caller, calls, minute, jobs,
                   task_runs>>

\* _run_scheduler: schedule.run_pending() runs each due job through
\* _run_task_with_logging, which catches what the task raises, and moves the
\* job to the next day; then the thread goes to sleep for a minute
RunPending ==
    /\ SchedFrame
    /\ \E t \in DOMAIN loop_threads :
          /\ loop_threads[t].pc = "run_pending"
          /\ LET due == DueJobs(jobs, minute)
             IN  \E outcomes \in [DOMAIN due -> {"completed", "failed"}] :
                    task_runs' = task_runs \o
                        [i \in DOMAIN due |->
                            [at |-> due[i].at, minute |-> minute,
                             outcome |-> outcomes[i], thread |-> t]]
          /\ jobs' = [i \in DOMAIN jobs |->
                        IF jobs[i].next_run <= minute
                        THEN [jobs[i] EXCEPT !.next_run = ScheduleNextRun(jobs[i].at, minute)]
                        ELSE jobs[i]]
          /\ loop_threads' = [loop_threads EXCEPT
                                ![t] = [pc |-> "sleep", until |-> minute + 1]]
    /\ UNCHANGED <<running, scheduler_thread, caller, calls, minute>>

\* _run_scheduler: time.sleep(60) returns
LoopWakes ==
    /\ SchedFrame
    /\ \E t \in DOMAIN loop_threads :
          /\ loop_threads[t].pc = "sleep"
          /\ loop_threads[t].until <= minute
          /\ loop_threads' = [loop_threads EXCEPT ![t].pc = "while"]
    /\ UNCHANGED <<running, scheduler_thread, caller, calls, minute, jobs,
                   task_runs>>

\* a minute passes: no thread is between its wake-up and its next sleep
MinutePasses ==
    /\ SchedFrame
    /\ minute < MaxMinute
    /\ \A t \in DOMAIN loop_threads :
          \/ loop_threads[t].pc = "ended"
          \/ loop_threads[t].pc = "sleep" /\ loop_threads[t].until > minute
    /\ minute' = minute + 1
    /\ UNCHANGED <<running, scheduler_thread, loop_threads, caller, calls, jobs,
                   task_runs>>

\* a TaskScheduler whose jobs are scheduled, in a process that stays up
InitScheduler ==
    /\ pc = "scheduler"
    /\ PdfIdle
    /\ text_content = "" /\ parsed_data = EmptyDict
    /\ ProcIdle
    /\ RepeatIdle /\ ScrapeIdle /\ LoopIdle /\ FieldIdle /\ DbIdle
    /\ runs = <<>>
    /\ running = FALSE /\ scheduler_thread = PyNone /\ loop_threads = <<>>
    /\ caller = "ready" /\ calls = <<>> /\ task_runs = <<>>
    /\ minute \in 0 .. (SlotsPerDay - 1)
    /\ jobs = ScheduleMultipleDailyTasks(ScheduleTimes, minute)

NextScheduler ==
    \/ Run \/ Stop \/ JoinReturns
    \/ LoopTests \/ RunPending \/ LoopWakes \/ MinutePasses

SpecScheduler == InitScheduler /\ [][NextScheduler]_vars

\* the loop threads that are inside the loop body, or would enter it at
\* their next test
ActiveLoops ==
    {t \in DOMAIN loop_threads :
        \/ loop_threads[t].pc = "run_pending"
        \/ loop_threads[t].pc \in {"while", "sleep"} /\ running}

\* C26: after any sequence of run() and stop() calls at most one scheduler
\* loop thread is active: a run() while running starts no thread, and a run()
\* after a stop() does not leave the previous loop thread, which may still be
\* in its sleep when the join times out, running alongside the new one.
C26_OneLoopThread ==
    /\ \A i \in DOMAIN calls :
          calls[i].op = "run" /\ calls[i].was_running => calls[i].thread = PyNone
    /\ Cardinality(ActiveLoops) <= 1

-----------------------------------------------------------------------------
(* main() without '--once' (src/main.py): the monitor is built, the main    *)
(* thread calls start_scheduler and returns.  The loop thread is a daemon   *)
(* thread: it ends with the process when the main thread has returned.      *)

\* NJHealthMonitor.start_scheduler
StartScheduler ==
    /\ SchedFrame
    /\ caller = "main"
    /\ jobs' = ScheduleMultipleDailyTasks(ScheduleTimes, minute)
    /\ TaskSchedulerRun
    /\ caller' = "started"
    /\ UNCHANGED <<minute, task_runs>>

\* start_scheduler and main return and the interpreter exits
MainReturns ==
    /\ SchedFrame
    /\ caller = "started"
    /\ caller' = "exited"
    /\ loop_threads' = [t \in DOMAIN loop_threads |->
                          [loop_threads[t] EXCEPT !.pc = "ended"]]
    /\ UNCHANGED <<running, scheduler_thread, calls, minute, jobs, task_runs>>

\* main() has built the monitor, at some minute of the day
InitMain ==
    /\ pc = "scheduler"
    /\ PdfIdle
    /\ text_content = "" /\ parsed_data = EmptyDict
    /\ ProcIdle
    /\ RepeatIdle /\ ScrapeIdle /\ LoopIdle /\ FieldIdle /\ DbIdle
    /\ runs = <<>>
    /\ running = FALSE /\ scheduler_thread = PyNone /\ loop_threads = <<>>
    /\ caller = "main" /\ calls = <<>> /\ task_runs = <<>> /\ jobs = <<>>
    /\ minute \in 0 .. (SlotsPerDay - 1)

NextMain ==
    \/ StartScheduler \/ MainReturns
    \/ LoopTests \/ RunPending \/ LoopWakes \/ MinutePasses

SpecMain == InitMain /\ [][NextMain]_vars

\* C27: after main() is started without '--once' the process keeps running
\* and run_daily_check is executed at each scheduled time: start_scheduler
\* leaves a live loop thread that goes on calling run_pending, so that no job
\* is left overdue, and a scheduled run that raised does not end the loop.
C27_ScheduledRunsExecuted ==
    /\ caller # "exited"
    /\ caller \in {"started", "exited"} =>
          \E t \in DOMAIN loop_threads : loop_threads[t].pc # "ended"
    /\ \A i \in DOMAIN jobs : jobs[i].next_run >= minute
    /\ \A t \in DOMAIN loop_threads :
          loop_threads[t].pc = "ended" => ~running \/ caller = "exited"

====
